---- MODULE Spec2Model ----
(***************************************************************************)
(* A model of the financial dashboard: the health scorer of src/health.py  *)
(* (score_company_health and its helpers), the statement normalizer, the   *)
(* ratio engine and the portfolio batches of                               *)
(* src/financialstatementfunctions_p.py, and the scoring loops of          *)
(* src/streamlit_app.py.                                                   *)
(*                                                                         *)
(* A statement (pandas DataFrame, index = period, columns = line items) is *)
(* a record [isNone, cols, rows]; a row is [period, vals] with vals a      *)
(* function from the table's columns to cells.  A cell, and every number   *)
(* the scorer derives from cells, is a record [k, n, d]:                   *)
(*    k = "num"   the rational n/d (d > 0, lowest terms)                   *)
(*    k = "nan"   the float NaN (a null of a column that is present)       *)
(*    k = "none"  Python's None (what .get returns for an absent column)   *)
(* Ratios of cells are compared with the thresholds as exact rationals;    *)
(* for the magnitudes used here the IEEE double quotient compares with the *)
(* double threshold exactly as the rationals do.  The total score, where   *)
(* the double rounding decides the result, is computed on doubles.         *)
(***************************************************************************)
EXTENDS Integers, Sequences, FiniteSets, TLC

VARIABLES balance_sheet, financials, cashflow, pc, result,
          provider, listoftickers, t_index, output, fill_method

vars == <<balance_sheet, financials, cashflow, pc, result,
          provider, listoftickers, t_index, output, fill_method>>

(***************************************************************************)
(* Values: None, NaN and rationals.                                        *)
(***************************************************************************)
NoneV == [k |-> "none", n |-> 0, d |-> 1]

NaN == [k |-> "nan", n |-> 0, d |-> 1]

AbsInt(x) == IF x < 0 THEN -x ELSE x

RECURSIVE GCD(_, _)
GCD(a, b) == IF b = 0 THEN a ELSE GCD(b, a % b)

\* the rational x/y (y # 0) in lowest terms with a positive denominator
Rat(x, y) ==
    LET g == GCD(AbsInt(x), AbsInt(y))
        s == IF y < 0 THEN -1 ELSE 1
    IN  [k |-> "num", n |-> (s * x) \div g, d |-> (s * y) \div g]

Num(x) == [k |-> "num", n |-> x, d |-> 1]

IsNone(v) == v.k = "none"

IsNum(v) == v.k = "num"

\* pd.isna(v): None and NaN are both null
isna(v) == v.k \in {"none", "nan"}

\* Python truthiness of a scalar: None and 0 are falsy, NaN and every other number truthy
Truthy(v) == v.k = "nan" \/ (v.k = "num" /\ v.n # 0)

\* float comparisons: every comparison with NaN is False
Lt(a, b) == IsNum(a) /\ IsNum(b) /\ a.n * b.d < b.n * a.d

Le(a, b) == IsNum(a) /\ IsNum(b) /\ a.n * b.d <= b.n * a.d

Gt(a, b) == Lt(b, a)

Ge(a, b) == Le(b, a)

\* float arithmetic on numbers and NaN (NaN in, NaN out)
Add(a, b) == IF IsNum(a) /\ IsNum(b) THEN Rat(a.n * b.d + b.n * a.d, a.d * b.d) ELSE NaN

Sub(a, b) == IF IsNum(a) /\ IsNum(b) THEN Rat(a.n * b.d - b.n * a.d, a.d * b.d) ELSE NaN

Mul(a, b) == IF IsNum(a) /\ IsNum(b) THEN Rat(a.n * b.n, a.d * b.d) ELSE NaN

Abs(a) == IF IsNum(a) THEN Rat(AbsInt(a.n), a.d) ELSE NaN

\* a / b for a float b other than 0
Div(a, b) == IF IsNum(a) /\ IsNum(b) THEN Rat(a.n * b.d, a.d * b.n) ELSE NaN

(***************************************************************************)
(* IEEE-754 doubles, for the total score.  A double other than 0 is        *)
(*   +/- 2^p * (1 + L[1]/2^13 + L[2]/2^26 + L[3]/2^39 + L[4]/2^52),        *)
(* its 52 fraction bits held as four 13-bit limbs; every operation rounds  *)
(* to nearest, ties to even, as the hardware does.                         *)
(***************************************************************************)
Limb == 2^13

FZero == [zero |-> TRUE, neg |-> FALSE, p |-> 0, L |-> <<0, 0, 0, 0>>]

\* the next double up
FInc(x) ==
    IF x.L[4] + 1 < Limb THEN [x EXCEPT !.L[4] = @ + 1]
    ELSE IF x.L[3] + 1 < Limb THEN [x EXCEPT !.L[4] = 0, !.L[3] = @ + 1]
    ELSE IF x.L[2] + 1 < Limb THEN [x EXCEPT !.L[4] = 0, !.L[3] = 0, !.L[2] = @ + 1]
    ELSE IF x.L[1] + 1 < Limb THEN [x EXCEPT !.L = <<x.L[1] + 1, 0, 0, 0>>]
    ELSE [x EXCEPT !.p = @ + 1, !.L = <<0, 0, 0, 0>>]

RECURSIVE ExpUp(_, _, _)
ExpUp(a, b, q) == IF a >= b * 2^(q + 1) THEN ExpUp(a, b, q + 1) ELSE q

RECURSIVE ExpDown(_, _, _)
ExpDown(a, b, q) == IF a * 2^q >= b THEN -q ELSE ExpDown(a, b, q + 1)

\* the p with 2^p <= a/b < 2^(p+1), for integers a, b > 0
Exponent(a, b) == IF a >= b THEN ExpUp(a, b, 0) ELSE ExpDown(a, b, 1)

\* int / int (true division): the double nearest to n/b, for integers n and b > 0
FloatDiv(n, b) ==
    IF n = 0 THEN FZero
    ELSE
    LET a  == AbsInt(n)
        p  == Exponent(a, b)
        ap == IF p < 0 THEN a * 2^(-p) ELSE a
        bp == IF p > 0 THEN b * 2^p ELSE b
        r0 == ap - bp
        L1 == (r0 * Limb) \div bp
        r1 == (r0 * Limb) % bp
        L2 == (r1 * Limb) \div bp
        r2 == (r1 * Limb) % bp
        L3 == (r2 * Limb) \div bp
        r3 == (r2 * Limb) % bp
        L4 == (r3 * Limb) \div bp
        r4 == (r3 * Limb) % bp
        x  == [zero |-> FALSE, neg |-> n < 0, p |-> p, L |-> <<L1, L2, L3, L4>>]
        up == 2 * r4 > bp \/ (2 * r4 = bp /\ L4 % 2 = 1)
    IN  IF up THEN FInc(x) ELSE x

RECURSIVE BitLength(_)
BitLength(t) == IF t = 0 THEN 0 ELSE 1 + BitLength(t \div 2)

\* float * int: the double nearest to x*c, for a small integer c > 0
FloatMulInt(x, c) ==
    IF x.zero THEN FZero
    ELSE
    LET t4 == x.L[4] * c
        t3 == x.L[3] * c + (t4 \div Limb)
        t2 == x.L[2] * c + (t3 \div Limb)
        t1 == x.L[1] * c + (t2 \div Limb)
        T  == c + (t1 \div Limb)
        D  == BitLength(T) - 1
        sh == 2^D
        N1 == ((T % sh) * Limb + (t1 % Limb)) \div sh
        N2 == (((t1 % Limb) % sh) * Limb + (t2 % Limb)) \div sh
        N3 == (((t2 % Limb) % sh) * Limb + (t3 % Limb)) \div sh
        N4 == (((t3 % Limb) % sh) * Limb + (t4 % Limb)) \div sh
        dropped == (t4 % Limb) % sh
        y  == [zero |-> FALSE, neg |-> x.neg, p |-> x.p + D, L |-> <<N1, N2, N3, N4>>]
        up == 2 * dropped > sh \/ (2 * dropped = sh /\ N4 % 2 = 1)
    IN  IF up THEN FInc(y) ELSE y

\* |x| to the nearest integer, ties to even, for a double |x| < 2^13
RoundMagnitude(x) ==
    IF x.zero \/ x.p < -1 THEN 0
    ELSE IF x.p = -1 THEN (IF x.L = <<0, 0, 0, 0>> THEN 0 ELSE 1)
    ELSE
    LET w    == 2^(13 - x.p)
        I    == 2^x.p + (x.L[1] \div w)
        f    == x.L[1] % w
        rest == x.L[2] # 0 \/ x.L[3] # 0 \/ x.L[4] # 0
    IN  IF 2 * f > w \/ (2 * f = w /\ rest) THEN I + 1
        ELSE IF 2 * f = w THEN I + (I % 2)
        ELSE I

\* Python's round(x) of a double
PyRound(x) == IF x.neg THEN - RoundMagnitude(x) ELSE RoundMagnitude(x)

(***************************************************************************)
(* Statements (DataFrames).                                                *)
(***************************************************************************)
\* pd.DataFrame(): no rows, no columns
EmptyDF == [isNone |-> FALSE, cols |-> {}, rows |-> <<>>]

NoneDF == [isNone |-> TRUE, cols |-> {}, rows |-> <<>>]

\* DataFrame.empty: an axis of length 0
empty(df) == Len(df.rows) = 0 \/ df.cols = {}

RECURSIVE InsertRow(_, _)
InsertRow(rows, r) ==
    IF rows = <<>> THEN <<r>>
    ELSE IF rows[Len(rows)].period <= r.period THEN Append(rows, r)
    ELSE Append(InsertRow(SubSeq(rows, 1, Len(rows) - 1), r), rows[Len(rows)])

RECURSIVE SortRows(_)
SortRows(rows) ==
    IF rows = <<>> THEN <<>>
    ELSE InsertRow(SortRows(SubSeq(rows, 1, Len(rows) - 1)), rows[Len(rows)])

\* a bug: the rows left in the order given
keep_index(df) == df

\* DataFrame.sort_index(): the rows in ascending order of period
sort_index(df) == [df EXCEPT !.rows = SortRows(df.rows)]

\* df.iloc[-1]
iloc_last(df) == df.rows[Len(df.rows)]

\* a bug: 0 for a column the table does not have
get_zero(row, key) == IF key \in DOMAIN row.vals THEN row.vals[key] ELSE Num(0)

\* Series.get(key) on a row: None for a column the table does not have
get(row, key) == IF key \in DOMAIN row.vals THEN row.vals[key] ELSE NoneV

\* DataFrame.get(key): the column as a series, None for an absent column
column(df, key) ==
    IF key \in df.cols
    THEN [isNone |-> FALSE, vals |-> [i \in 1..Len(df.rows) |-> df.rows[i].vals[key]]]
    ELSE [isNone |-> TRUE, vals |-> <<>>]

\* a bug: the whole history taken for the window
_all_years(df, n) ==
    IF df.isNone \/ empty(df) THEN df ELSE sort_index(df)

_last_n_years(df, n) ==
    IF df.isNone \/ empty(df) THEN df
    ELSE LET s == sort_index(df)
             m == Len(s.rows)
         IN  [s EXCEPT !.rows = SubSeq(s.rows, IF m > n THEN m - n + 1 ELSE 1, m)]

_safe_div(a, b) ==
    IF IsNone(b) \/ (IsNum(b) /\ b.n = 0) THEN NoneV
    ELSE IF IsNone(a) THEN NoneV              \* None / x raises TypeError, caught
    ELSE IF IsNum(a) /\ IsNum(b) THEN Rat(a.n * b.d, a.d * b.n)
    ELSE NaN

\* Series.dropna() after pd.to_numeric(errors="coerce")
RECURSIVE dropna(_)
dropna(s) ==
    IF s = <<>> THEN <<>>
    ELSE IF IsNum(s[Len(s)]) THEN Append(dropna(SubSeq(s, 1, Len(s) - 1)), s[Len(s)])
    ELSE dropna(SubSeq(s, 1, Len(s) - 1))

\* what _trend_pct yields when its argument is None: pd.to_numeric(None) is a
\* scalar, which has no dropna, and the AttributeError leaves the scorer
Raise == [k |-> "raise", n |-> 0, d |-> 1]

_trend_pct(series) ==
    IF series.isNone THEN Raise
    ELSE LET s     == dropna(series.vals)
             first == s[1]
             last  == s[Len(s)]
         IN  IF Len(s) < 2 THEN NoneV
             ELSE IF first.n = 0 \/ isna(first) \/ isna(last) THEN NoneV
             ELSE Div(Sub(last, first), Abs(first))

(***************************************************************************)
(* The eight metrics.  Each yields its score and the flags it appends.     *)
(***************************************************************************)
\* a bug: the top band open at 1.5
LiquidityStrict(current_ratio) ==
    IF IsNone(current_ratio)
    THEN [score |-> 0, flags |-> <<"Could not compute Current Ratio (missing current assets/liabilities).">>]
    ELSE IF Gt(current_ratio, Rat(3, 2)) THEN [score |-> 10, flags |-> <<>>]
    ELSE IF Ge(current_ratio, Rat(1, 1)) THEN [score |-> 7, flags |-> <<>>]
    ELSE IF Ge(current_ratio, Rat(4, 5))
    THEN [score |-> 4, flags |-> <<"Current Ratio is below 1.0 (tight short-term liquidity).">>]
    ELSE [score |-> 1, flags |-> <<"Current Ratio is very low (high short-term liquidity risk).">>]

Liquidity(current_ratio) ==
    IF IsNone(current_ratio)
    THEN [score |-> 0, flags |-> <<"Could not compute Current Ratio (missing current assets/liabilities).">>]
    ELSE IF Ge(current_ratio, Rat(3, 2)) THEN [score |-> 10, flags |-> <<>>]
    ELSE IF Ge(current_ratio, Rat(1, 1)) THEN [score |-> 7, flags |-> <<>>]
    ELSE IF Ge(current_ratio, Rat(4, 5))
    THEN [score |-> 4, flags |-> <<"Current Ratio is below 1.0 (tight short-term liquidity).">>]
    ELSE [score |-> 1, flags |-> <<"Current Ratio is very low (high short-term liquidity risk).">>]

Leverage(debt_to_equity) ==
    IF IsNone(debt_to_equity)
    THEN [score |-> 0, flags |-> <<"Could not compute leverage ratio (missing liabilities/equity).">>]
    ELSE IF Le(debt_to_equity, Rat(1, 1)) THEN [score |-> 10, flags |-> <<>>]
    ELSE IF Le(debt_to_equity, Rat(2, 1)) THEN [score |-> 7, flags |-> <<>>]
    ELSE IF Le(debt_to_equity, Rat(3, 1))
    THEN [score |-> 4, flags |-> <<"High leverage (liabilities materially exceed equity).">>]
    ELSE [score |-> 1, flags |-> <<"Very high leverage (risk increases sharply in downturns).">>]

\* a bug: the third band open at 0.85
SolvencyStrict(debt_to_assets) ==
    IF IsNone(debt_to_assets) THEN [score |-> 0, flags |-> <<>>]
    ELSE IF Le(debt_to_assets, Rat(1, 2)) THEN [score |-> 10, flags |-> <<>>]
    ELSE IF Le(debt_to_assets, Rat(7, 10)) THEN [score |-> 7, flags |-> <<>>]
    ELSE IF Lt(debt_to_assets, Rat(85, 100))
    THEN [score |-> 4, flags |-> <<"Liabilities are a large share of assets (solvency weaker).">>]
    ELSE [score |-> 1, flags |-> <<"Liabilities dominate the asset base (solvency risk).">>]

Solvency(debt_to_assets) ==
    IF IsNone(debt_to_assets) THEN [score |-> 0, flags |-> <<>>]
    ELSE IF Le(debt_to_assets, Rat(1, 2)) THEN [score |-> 10, flags |-> <<>>]
    ELSE IF Le(debt_to_assets, Rat(7, 10)) THEN [score |-> 7, flags |-> <<>>]
    ELSE IF Le(debt_to_assets, Rat(85, 100))
    THEN [score |-> 4, flags |-> <<"Liabilities are a large share of assets (solvency weaker).">>]
    ELSE [score |-> 1, flags |-> <<"Liabilities dominate the asset base (solvency risk).">>]

\* a bug: the third band without its flag
ProfitabilityUnflagged(op_margin) ==
    IF IsNone(op_margin)
    THEN [score |-> 0, flags |-> <<"Could not compute operating margin (missing EBIT/revenue).">>]
    ELSE IF Ge(op_margin, Rat(20, 100)) THEN [score |-> 10, flags |-> <<>>]
    ELSE IF Ge(op_margin, Rat(12, 100)) THEN [score |-> 7, flags |-> <<>>]
    ELSE IF Ge(op_margin, Rat(6, 100)) THEN [score |-> 4, flags |-> <<>>]
    ELSE [score |-> 1, flags |-> <<"Very low operating margin (business model looks fragile).">>]

Profitability(op_margin) ==
    IF IsNone(op_margin)
    THEN [score |-> 0, flags |-> <<"Could not compute operating margin (missing EBIT/revenue).">>]
    ELSE IF Ge(op_margin, Rat(20, 100)) THEN [score |-> 10, flags |-> <<>>]
    ELSE IF Ge(op_margin, Rat(12, 100)) THEN [score |-> 7, flags |-> <<>>]
    ELSE IF Ge(op_margin, Rat(6, 100))
    THEN [score |-> 4, flags |-> <<"Thin operating margin (profits can vanish in a slowdown).">>]
    ELSE [score |-> 1, flags |-> <<"Very low operating margin (business model looks fragile).">>]

UnitEconomics(gross_margin) ==
    IF IsNone(gross_margin) THEN [score |-> 0, flags |-> <<>>]
    ELSE IF Ge(gross_margin, Rat(40, 100)) THEN [score |-> 10, flags |-> <<>>]
    ELSE IF Ge(gross_margin, Rat(25, 100)) THEN [score |-> 7, flags |-> <<>>]
    ELSE IF Ge(gross_margin, Rat(15, 100))
    THEN [score |-> 4, flags |-> <<"Low gross margin (limited pricing power or high input costs).">>]
    ELSE [score |-> 1, flags |-> <<"Very low gross margin (watch competitive pressure).">>]

EarningsQuality(cash_to_income) ==
    IF IsNone(cash_to_income)
    THEN [score |-> 0, flags |-> <<"Could not compute OCF/Net Income (missing OCF or Net Income).">>]
    ELSE IF Ge(cash_to_income, Rat(12, 10)) THEN [score |-> 10, flags |-> <<>>]
    ELSE IF Ge(cash_to_income, Rat(9, 10)) THEN [score |-> 7, flags |-> <<>>]
    ELSE IF Ge(cash_to_income, Rat(6, 10))
    THEN [score |-> 4, flags |-> <<"Cash conversion is weak (profits not turning into cash).">>]
    ELSE [score |-> 1, flags |-> <<"Very weak cash conversion (potential accrual risk).">>]

\* a bug: a free cash flow of exactly 0 taken for positive
FreeCashFlowGe(fcf, revenue) ==
    IF isna(fcf)
    THEN [score |-> 0, flags |-> <<"Free Cash Flow missing from Yahoo Finance for this ticker.">>]
    ELSE IF Ge(fcf, Num(0)) THEN [score |-> 10, flags |-> <<>>]
    ELSE IF Gt(fcf, Mul(Rat(-5, 100), IF Truthy(revenue) THEN revenue ELSE Num(1)))
    THEN [score |-> 6, flags |-> <<"FCF slightly negative (may be investment-heavy period).">>]
    ELSE [score |-> 2, flags |-> <<"FCF materially negative (funding needs can rise).">>]

FreeCashFlow(fcf, revenue) ==
    IF isna(fcf)
    THEN [score |-> 0, flags |-> <<"Free Cash Flow missing from Yahoo Finance for this ticker.">>]
    ELSE IF Gt(fcf, Num(0)) THEN [score |-> 10, flags |-> <<>>]
    ELSE IF Gt(fcf, Mul(Rat(-5, 100), IF Truthy(revenue) THEN revenue ELSE Num(1)))
    THEN [score |-> 6, flags |-> <<"FCF slightly negative (may be investment-heavy period).">>]
    ELSE [score |-> 2, flags |-> <<"FCF materially negative (funding needs can rise).">>]

\* one trend deduction: the points taken off and the flag, when its condition holds
Deduct(cond, points, flag) ==
    IF cond THEN [points |-> points, flags |-> <<flag>>] ELSE [points |-> 0, flags |-> <<>>]

\* a bug: the liabilities deduction applied at a trend of exactly 0.5
TrendDeductionsGe(liab_trend, rev_trend, ni_trend, rec_trend, inv_trend) ==
    LET d1 == Deduct(~IsNone(liab_trend) /\ Ge(liab_trend, Rat(1, 2)), 3,
                     "Liabilities grew >50% over last ~3 reported years (leverage trending up).")
        d2 == Deduct(~IsNone(rev_trend) /\ Lt(rev_trend, Num(0)), 3,
                     "Revenue trend is negative over last ~3 reported years.")
        d3 == Deduct(~IsNone(ni_trend) /\ Lt(ni_trend, Num(0)), 3,
                     "Net income trend is negative over last ~3 reported years.")
        d4 == Deduct(~IsNone(rec_trend) /\ ~IsNone(rev_trend)
                        /\ Gt(rec_trend, Add(rev_trend, Rat(1, 4))), 2,
                     "Receivables rising much faster than revenue (collection risk).")
        d5 == Deduct(~IsNone(inv_trend) /\ ~IsNone(rev_trend)
                        /\ Gt(inv_trend, Add(rev_trend, Rat(1, 4))), 2,
                     "Inventory rising much faster than revenue (demand/stock risk).")
    IN  [points |-> d1.points + d2.points + d3.points + d4.points + d5.points,
         flags |-> d1.flags \o d2.flags \o d3.flags \o d4.flags \o d5.flags]

\* the five deductions, each applied on its own condition: the points taken off in
\* all and the flags appended
TrendDeductions(liab_trend, rev_trend, ni_trend, rec_trend, inv_trend) ==
    LET d1 == Deduct(~IsNone(liab_trend) /\ Gt(liab_trend, Rat(1, 2)), 3,
                     "Liabilities grew >50% over last ~3 reported years (leverage trending up).")
        d2 == Deduct(~IsNone(rev_trend) /\ Lt(rev_trend, Num(0)), 3,
                     "Revenue trend is negative over last ~3 reported years.")
        d3 == Deduct(~IsNone(ni_trend) /\ Lt(ni_trend, Num(0)), 3,
                     "Net income trend is negative over last ~3 reported years.")
        d4 == Deduct(~IsNone(rec_trend) /\ ~IsNone(rev_trend)
                        /\ Gt(rec_trend, Add(rev_trend, Rat(1, 4))), 2,
                     "Receivables rising much faster than revenue (collection risk).")
        d5 == Deduct(~IsNone(inv_trend) /\ ~IsNone(rev_trend)
                        /\ Gt(inv_trend, Add(rev_trend, Rat(1, 4))), 2,
                     "Inventory rising much faster than revenue (demand/stock risk).")
    IN  [points |-> d1.points + d2.points + d3.points + d4.points + d5.points,
         flags |-> d1.flags \o d2.flags \o d3.flags \o d4.flags \o d5.flags]

Max(x, y) == IF x >= y THEN x ELSE y

\* a bug: the trend points are not floored at 0
TrendChecksNoFloor(liab_trend, rev_trend, ni_trend, rec_trend, inv_trend) ==
    LET t == TrendDeductions(liab_trend, rev_trend, ni_trend, rec_trend, inv_trend)
    IN  [score |-> 10 - t.points, flags |-> t.flags]

TrendChecks(liab_trend, rev_trend, ni_trend, rec_trend, inv_trend) ==
    LET t == TrendDeductions(liab_trend, rev_trend, ni_trend, rec_trend, inv_trend)
    IN  [score |-> Max(10 - t.points, 0), flags |-> t.flags]

(***************************************************************************)
(* Total score and rating.                                                 *)
(***************************************************************************)
RECURSIVE SumOver(_, _)
SumOver(f, keys) ==
    IF keys = {} THEN 0
    ELSE LET key == CHOOSE x \in keys : TRUE
         IN  f[key] + SumOver(f, keys \ {key})

\* sum(metric_scores.values())
SumValues(f) == SumOver(f, DOMAIN f)

\* a bug: the total scaled by the metrics that scored more than 0
TotalScoreOfComputed(metric_scores) ==
    LET computed == {key \in DOMAIN metric_scores : metric_scores[key] # 0}
    IN  IF computed = {} THEN 0
        ELSE PyRound(FloatMulInt(FloatDiv(SumValues(metric_scores),
                                          10 * Cardinality(computed)), 100))

\* round((total / (10 * len(metric_scores))) * 100) if metric_scores else 0
TotalScore(metric_scores) ==
    IF DOMAIN metric_scores = {} THEN 0
    ELSE PyRound(FloatMulInt(FloatDiv(SumValues(metric_scores),
                                      10 * Cardinality(DOMAIN metric_scores)), 100))

\* a bug: the bands open at their lower bounds
RatingStrict(score) ==
    IF score > 80 THEN "Strong"
    ELSE IF score > 60 THEN "Okay"
    ELSE IF score > 40 THEN "Weak"
    ELSE "Risky"

Rating(score) ==
    IF score >= 80 THEN "Strong"
    ELSE IF score >= 60 THEN "Okay"
    ELSE IF score >= 40 THEN "Weak"
    ELSE "Risky"

(***************************************************************************)
(* score_company_health.  The ticker argument is never read.               *)
(***************************************************************************)
EmptyDict == [x \in {} |-> 0]

\* a bug: the early exit rated as a computed score of 0 would be
NoDataRisky ==
    [score |-> 0, rating |-> "Risky", metric_scores |-> EmptyDict,
     flags |-> <<"Missing statements from Yahoo Finance for this ticker.">>,
     snapshot |-> EmptyDict]

\* the early exit's return value
NoData ==
    [score |-> 0, rating |-> "No Data", metric_scores |-> EmptyDict,
     flags |-> <<"Missing statements from Yahoo Finance for this ticker.">>,
     snapshot |-> EmptyDict]

\* the result of a call: a return value, or an exception that leaves the function
Returned(value) == [outcome |-> "returned", value |-> value]

\* no return value: before the call, and after an exception
NoResult ==
    [score |-> -1, rating |-> "", metric_scores |-> EmptyDict, flags |-> <<>>,
     snapshot |-> EmptyDict]

Raised == [outcome |-> "raised", value |-> NoResult]

score_company_health(bs_in, fs_in, cf_in) ==
    LET bs == IF ~bs_in.isNone THEN sort_index(bs_in) ELSE EmptyDF
        fs == IF ~fs_in.isNone THEN sort_index(fs_in) ELSE EmptyDF
        cf == IF ~cf_in.isNone THEN sort_index(cf_in) ELSE EmptyDF
    IN  IF empty(bs) \/ empty(fs) \/ empty(cf) THEN Returned(NoData)
        ELSE
        LET latest_bs == iloc_last(bs)
            latest_fs == iloc_last(fs)
            latest_cf == iloc_last(cf)
            cur_assets == get(latest_bs, "Current Assets")
            cur_liab == get(latest_bs, "Current Liabilities")
            tot_assets == get(latest_bs, "Total Assets")
            tot_liab == get(latest_bs, "Total Liabilities Net Minority Interest")
            equity == get(latest_bs, "Total Equity Gross Minority Interest")
            cash == get(latest_bs, "Cash And Cash Equivalents")
            revenue == get(latest_fs, "Total Revenue")
            ebit == get(latest_fs, "EBIT")
            gross_profit == get(latest_fs, "Gross Profit")
            net_income == get(latest_fs, "Net Income")
            ocf == get(latest_cf, "Operating Cash Flow")
            fcf == get(latest_cf, "Free Cash Flow")
            capex == get(latest_cf, "Capital Expenditure")
            bs3 == _last_n_years(bs, 3)
            fs3 == _last_n_years(fs, 3)
            current_ratio == _safe_div(cur_assets, cur_liab)
            debt_to_equity == _safe_div(tot_liab, equity)
            debt_to_assets == _safe_div(tot_liab, tot_assets)
            op_margin == _safe_div(ebit, revenue)
            gross_margin == _safe_div(gross_profit, revenue)
            cash_to_income == _safe_div(ocf, net_income)
            m1 == Liquidity(current_ratio)
            m2 == Leverage(debt_to_equity)
            m3 == Solvency(debt_to_assets)
            m4 == Profitability(op_margin)
            m5 == UnitEconomics(gross_margin)
            m6 == EarningsQuality(cash_to_income)
            m7 == FreeCashFlow(fcf, revenue)
            liab_trend == _trend_pct(column(bs3, "Total Liabilities Net Minority Interest"))
            rev_trend == _trend_pct(column(fs3, "Total Revenue"))
            ni_trend == _trend_pct(column(fs3, "Net Income"))
            rec_trend == _trend_pct(column(bs3, "Accounts Receivable"))
            inv_trend == _trend_pct(column(bs3, "Inventory"))
            m8 == TrendChecks(liab_trend, rev_trend, ni_trend, rec_trend, inv_trend)
            metric_scores ==
                ("Liquidity (Current Ratio)" :> m1.score) @@
                ("Leverage (Debt/Equity proxy)" :> m2.score) @@
                ("Solvency (Liab/Assets)" :> m3.score) @@
                ("Profitability (Operating Margin)" :> m4.score) @@
                ("Unit Economics (Gross Margin)" :> m5.score) @@
                ("Earnings Quality (OCF/Net Income)" :> m6.score) @@
                ("Free Cash Flow (FCF)" :> m7.score) @@
                ("Trend Checks (3y)" :> m8.score)
            snapshot ==
                ("Current Assets" :> cur_assets) @@
                ("Current Liabilities" :> cur_liab) @@
                ("Total Assets" :> tot_assets) @@
                ("Total Liabilities" :> tot_liab) @@
                ("Total Equity" :> equity) @@
                ("Cash & Equivalents" :> cash) @@
                ("Revenue" :> revenue) @@
                ("EBIT" :> ebit) @@
                ("Gross Profit" :> gross_profit) @@
                ("Net Income" :> net_income) @@
                ("Operating Cash Flow" :> ocf) @@
                ("Free Cash Flow" :> fcf) @@
                ("Capex" :> capex) @@
                ("Current Ratio" :> current_ratio) @@
                ("Debt to Equity (Liab/Equity)" :> debt_to_equity) @@
                ("Debt to Assets (Liab/Assets)" :> debt_to_assets) @@
                ("Operating Margin (EBIT/Revenue)" :> op_margin) @@
                ("Gross Margin (Gross Profit/Revenue)" :> gross_margin) @@
                ("OCF / Net Income" :> cash_to_income)
            score == TotalScore(metric_scores)
        IN  IF Raise \in {liab_trend, rev_trend, ni_trend, rec_trend, inv_trend} THEN Raised
            ELSE Returned([score |-> score, rating |-> Rating(score),
                           metric_scores |-> metric_scores,
                           flags |-> m1.flags \o m2.flags \o m3.flags \o m4.flags
                                     \o m5.flags \o m6.flags \o m7.flags \o m8.flags,
                           snapshot |-> snapshot])

(***************************************************************************)
(* Inputs.  Statements arrive as the provider orders them, newest period   *)
(* first.  Absent marks a line item whose column the table does not have.  *)
(***************************************************************************)
Absent == [k |-> "absent", n |-> 0, d |-> 1]

BSFields ==
    {"Current Assets", "Current Liabilities", "Total Assets",
     "Total Liabilities Net Minority Interest", "Total Equity Gross Minority Interest",
     "Cash And Cash Equivalents", "Accounts Receivable", "Inventory"}

FSFields == {"Total Revenue", "EBIT", "Gross Profit", "Net Income"}

CFFields == {"Operating Cash Flow", "Free Cash Flow", "Capital Expenditure"}

\* a sound company: every ratio in its top band
LatestBS ==
    ("Current Assets" :> Num(30)) @@ ("Current Liabilities" :> Num(20)) @@
    ("Total Assets" :> Num(100)) @@ ("Total Liabilities Net Minority Interest" :> Num(40)) @@
    ("Total Equity Gross Minority Interest" :> Num(60)) @@
    ("Cash And Cash Equivalents" :> Num(10)) @@ ("Accounts Receivable" :> Num(8)) @@
    ("Inventory" :> Num(5))

LatestFS ==
    ("Total Revenue" :> Num(100)) @@ ("EBIT" :> Num(25)) @@ ("Gross Profit" :> Num(50)) @@
    ("Net Income" :> Num(20))

LatestCF ==
    ("Operating Cash Flow" :> Num(30)) @@ ("Free Cash Flow" :> Num(15)) @@
    ("Capital Expenditure" :> Num(-15))

\* the year before: weak ratios, and no trend that draws a deduction
OlderBS ==
    ("Current Assets" :> Num(5)) @@ ("Current Liabilities" :> Num(20)) @@
    ("Total Assets" :> Num(42)) @@ ("Total Liabilities Net Minority Interest" :> Num(40)) @@
    ("Total Equity Gross Minority Interest" :> Num(2)) @@
    ("Cash And Cash Equivalents" :> NaN) @@ ("Accounts Receivable" :> Num(8)) @@
    ("Inventory" :> Num(5))

OlderFS ==
    ("Total Revenue" :> Num(80)) @@ ("EBIT" :> Num(1)) @@ ("Gross Profit" :> Num(4)) @@
    ("Net Income" :> Num(10))

OlderCF ==
    ("Operating Cash Flow" :> Num(1)) @@ ("Free Cash Flow" :> Num(-50)) @@
    ("Capital Expenditure" :> NaN)

\* vals with the entries of over replacing its own
Override(vals, over) == over @@ vals

\* the table of the given rows (period, vals), without the columns marked Absent
\* in the first row
Table(rows) ==
    LET cols == {f \in DOMAIN rows[1].vals : rows[1].vals[f] # Absent}
    IN  [isNone |-> FALSE, cols |-> cols,
         rows |-> [i \in 1..Len(rows) |->
                     [period |-> rows[i].period,
                      vals |-> [f \in cols |-> rows[i].vals[f]]]]]

Row(period, vals) == [period |-> period, vals |-> vals]

TwoYears(latest, older) == Table(<<Row(2, latest), Row(1, older)>>)

\* the shapes a statement can take: missing, empty, and with content
Shapes(latest, older) ==
    {NoneDF, EmptyDF,
     [isNone |-> FALSE, cols |-> DOMAIN latest, rows |-> <<>>],
     [isNone |-> FALSE, cols |-> {}, rows |-> <<Row(1, EmptyDict)>>],
     TwoYears(latest, older),
     Table(<<Row(1, older)>>),
     Table(<<Row(1, [f \in DOMAIN latest |-> NaN])>>)}

(***************************************************************************)
(* The state machine: a call of score_company_health on the statements.    *)
(***************************************************************************)
\* no portfolio is being processed
Idle ==
    /\ provider = <<>>
    /\ listoftickers = <<>>
    /\ t_index = 0
    /\ output = <<>>
    /\ fill_method = "pad"

Start(bs, fs, cf) ==
    /\ balance_sheet = bs
    /\ financials = fs
    /\ cashflow = cf
    /\ pc = "call"
    /\ result = NoResult
    /\ Idle

\* a ticker's statements for two years, the latest year's line items overridden
StartWith(bs_over, fs_over, cf_over) ==
    Start(TwoYears(Override(LatestBS, bs_over), OlderBS),
          TwoYears(Override(LatestFS, fs_over), OlderFS),
          TwoYears(Override(LatestCF, cf_over), OlderCF))

\* every combination of statement shapes
Init ==
    \E bs \in Shapes(LatestBS, OlderBS), fs \in Shapes(LatestFS, OlderFS),
       cf \in Shapes(LatestCF, OlderCF) : Start(bs, fs, cf)

\* bounds of the inputs
MaxV == 60

MaxFcf == 6

MaxSmall == 8

Numerators == {Num(x) : x \in -MaxV..MaxV} \cup {NaN, Absent}

Denominators ==
    {Num(x) : x \in {-50, -25, -20, -10, -5, -4, -2, -1, 0, 1, 2, 4, 5, 10, 20, 25, 50}}
        \cup {NaN, Absent}

\* the numerator a and denominator b of the m-th ratio metric, as overrides
RatioInputs(m, a, b) ==
    CASE m = 1 -> [bs |-> ("Current Assets" :> a) @@ ("Current Liabilities" :> b),
                   fs |-> EmptyDict, cf |-> EmptyDict]
      [] m = 2 -> [bs |-> ("Total Liabilities Net Minority Interest" :> a)
                          @@ ("Total Equity Gross Minority Interest" :> b),
                   fs |-> EmptyDict, cf |-> EmptyDict]
      [] m = 3 -> [bs |-> ("Total Liabilities Net Minority Interest" :> a)
                          @@ ("Total Assets" :> b),
                   fs |-> EmptyDict, cf |-> EmptyDict]
      [] m = 4 -> [bs |-> EmptyDict, fs |-> ("EBIT" :> a) @@ ("Total Revenue" :> b),
                   cf |-> EmptyDict]
      [] m = 5 -> [bs |-> EmptyDict, fs |-> ("Gross Profit" :> a) @@ ("Total Revenue" :> b),
                   cf |-> EmptyDict]
      [] m = 6 -> [bs |-> EmptyDict, fs |-> ("Net Income" :> b),
                   cf |-> ("Operating Cash Flow" :> a)]

\* the end-to-end examples: 150/100 and 200/300
Examples == {<<1, Num(150), Num(100)>>, <<2, Num(200), Num(300)>>}

\* one ratio metric's numerator and denominator vary, the rest is the sound company
InitRatios ==
    \E c \in ((1..6) \X Numerators \X Denominators) \cup Examples :
        LET in == RatioInputs(c[1], c[2], c[3]) IN StartWith(in.bs, in.fs, in.cf)

FcfCells ==
    {Num(x) : x \in -MaxFcf..MaxFcf} \cup {Rat(x, 64) : x \in -MaxSmall..MaxSmall}
        \cup {NaN, Absent}

\* free cash flow and revenue vary
InitFCF ==
    \E fcf \in FcfCells, revenue \in Numerators :
        StartWith(EmptyDict, "Total Revenue" :> revenue, "Free Cash Flow" :> fcf)

\* the year before, with trends that draw no, one, three or all five deductions
OlderTrends ==
    {<<OlderBS, OlderFS>>,
     <<Override(OlderBS, "Total Liabilities Net Minority Interest" :> Num(20)), OlderFS>>,
     <<OlderBS, Override(OlderFS, "Total Revenue" :> Num(200))>>,
     <<Override(OlderBS, ("Total Liabilities Net Minority Interest" :> Num(20))
                         @@ ("Accounts Receivable" :> Num(4)) @@ ("Inventory" :> Num(2))),
       Override(OlderFS, ("Total Revenue" :> Num(200)) @@ ("Net Income" :> Num(40)))>>}

\* every metric takes each of its scores: one input per band, and Absent for 0
InitTotal ==
    \/ \E cur_assets \in {Num(30), Num(20), Num(16), Num(5), Absent},
          equity \in {Num(60), Num(20), Num(10), Absent},
          tot_assets \in {Num(100), Absent},
          ebit \in {Num(25), Num(15), Num(8), Absent},
          gross_profit \in {Num(50), Absent},
          ocf \in {Num(30), Num(14), Num(5), Absent},
          fcf \in {Num(15), Num(-1), Num(-10), Absent},
          older \in OlderTrends :
            Start(TwoYears(Override(LatestBS, ("Current Assets" :> cur_assets)
                                @@ ("Total Equity Gross Minority Interest" :> equity)
                                @@ ("Total Assets" :> tot_assets)), older[1]),
                  TwoYears(Override(LatestFS, ("EBIT" :> ebit)
                                @@ ("Gross Profit" :> gross_profit)), older[2]),
                  TwoYears(Override(LatestCF, ("Operating Cash Flow" :> ocf)
                                @@ ("Free Cash Flow" :> fcf)), OlderCF))
    \/ Init

\* the latest year's line items: sound, or all null
Contents(latest) == {latest, [f \in DOMAIN latest |-> NaN]}

\* vals without the line items outside cols
Only(vals, cols) == [f \in DOMAIN vals |-> IF f \in cols THEN vals[f] ELSE Absent]

\* every subset of the line-item columns: of the balance sheet and the income
\* statement together, and of the cash flow
InitColumns ==
    \/ \E bc \in (SUBSET BSFields) \ {{}}, fc \in (SUBSET FSFields) \ {{}},
          b \in Contents(LatestBS), f \in Contents(LatestFS) :
            Start(TwoYears(Only(b, bc), OlderBS), TwoYears(Only(f, fc), OlderFS),
                  TwoYears(LatestCF, OlderCF))
    \/ \E cc \in (SUBSET CFFields) \ {{}}, c \in Contents(LatestCF) :
            Start(TwoYears(LatestBS, OlderBS), TwoYears(LatestFS, OlderFS),
                  TwoYears(Only(c, cc), OlderCF))

Score ==
    /\ pc = "call"
    /\ LET r == score_company_health(balance_sheet, financials, cashflow)
       IN  /\ pc' = r.outcome
           /\ result' = r.value
    /\ UNCHANGED <<balance_sheet, financials, cashflow>>
    /\ UNCHANGED <<provider, listoftickers, t_index, output, fill_method>>

Next == Score

Spec == Init /\ [][Next]_vars

SpecRatios == InitRatios /\ [][Next]_vars

SpecFCF == InitFCF /\ [][Next]_vars

SpecTotal == InitTotal /\ [][Next]_vars

SpecColumns == InitColumns /\ [][Next]_vars

(***************************************************************************)
(* Properties.  They read the inputs from the statements themselves: the   *)
(* latest year is the row of the greatest period.                          *)
(***************************************************************************)
HasContent(df) == ~df.isNone /\ Len(df.rows) > 0 /\ df.cols # {}

MissingOrNoRows(df) == df.isNone \/ Len(df.rows) = 0

Latest(df) ==
    df.rows[CHOOSE i \in 1..Len(df.rows) :
                \A j \in 1..Len(df.rows) : df.rows[j].period <= df.rows[i].period]

\* the latest value of a line item: None when the table has no such column
Cell(df, field) == IF field \in df.cols THEN Latest(df).vals[field] ELSE NoneV

\* the call returned an assessment computed from three statements with content
Scored ==
    /\ pc = "returned"
    /\ HasContent(balance_sheet) /\ HasContent(financials) /\ HasContent(cashflow)

HasFlag(flag) == \E i \in 1..Len(result.flags) : result.flags[i] = flag

MetricNames ==
    {"Liquidity (Current Ratio)", "Leverage (Debt/Equity proxy)", "Solvency (Liab/Assets)",
     "Profitability (Operating Margin)", "Unit Economics (Gross Margin)",
     "Earnings Quality (OCF/Net Income)", "Free Cash Flow (FCF)", "Trend Checks (3y)"}

\* C1: whenever one of the three statements is None or has no rows, the call returns
\* exactly score 0, rating "No Data", no metric scores, the one 'Missing statements'
\* flag and an empty snapshot, whatever the other two statements hold.
C1_EarlyExit ==
    (/\ pc # "call"
     /\ \/ MissingOrNoRows(balance_sheet)
        \/ MissingOrNoRows(financials)
        \/ MissingOrNoRows(cashflow))
    => /\ pc = "returned"
       /\ result.score = 0
       /\ result.rating = "No Data"
       /\ DOMAIN result.metric_scores = {}
       /\ result.flags = <<"Missing statements from Yahoo Finance for this ticker.">>
       /\ DOMAIN result.snapshot = {}

\* an empty balance sheet beside two statements with content
C1_Witness ==
    /\ pc = "returned"
    /\ ~balance_sheet.isNone /\ Len(balance_sheet.rows) = 0
    /\ HasContent(financials) /\ Len(financials.rows) = 2
    /\ HasContent(cashflow) /\ Len(cashflow.rows) = 2
    /\ result.rating = "No Data"

\* C2: an assessment computed from three non-empty statements has exactly the 8
\* metric scores, each an integer in 0..10, and a score that is an integer in 0..100.
C2_Bounded ==
    Scored =>
        /\ DOMAIN result.metric_scores = MetricNames
        /\ \A m \in MetricNames : result.metric_scores[m] \in 0..10
        /\ result.score \in 0..100

\* all five trend deductions apply (10 - 13), beside metrics that score
C2_Witness ==
    /\ Scored
    /\ Len(result.flags) >= 5
    /\ result.metric_scores["Trend Checks (3y)"] = 0
    /\ result.metric_scores["Liquidity (Current Ratio)"] = 10
    /\ result.score > 0

\* the six ratio metrics: name, numerator and denominator (statement and line
\* item), and the 'could not compute' flag of the four that have one
RatioMetrics ==
    <<[name |-> "Liquidity (Current Ratio)",
       num |-> <<"bs", "Current Assets">>, den |-> <<"bs", "Current Liabilities">>,
       flag |-> "Could not compute Current Ratio (missing current assets/liabilities)."],
      [name |-> "Leverage (Debt/Equity proxy)",
       num |-> <<"bs", "Total Liabilities Net Minority Interest">>,
       den |-> <<"bs", "Total Equity Gross Minority Interest">>,
       flag |-> "Could not compute leverage ratio (missing liabilities/equity)."],
      [name |-> "Solvency (Liab/Assets)",
       num |-> <<"bs", "Total Liabilities Net Minority Interest">>,
       den |-> <<"bs", "Total Assets">>, flag |-> ""],
      [name |-> "Profitability (Operating Margin)",
       num |-> <<"fs", "EBIT">>, den |-> <<"fs", "Total Revenue">>,
       flag |-> "Could not compute operating margin (missing EBIT/revenue)."],
      [name |-> "Unit Economics (Gross Margin)",
       num |-> <<"fs", "Gross Profit">>, den |-> <<"fs", "Total Revenue">>, flag |-> ""],
      [name |-> "Earnings Quality (OCF/Net Income)",
       num |-> <<"cf", "Operating Cash Flow">>, den |-> <<"fs", "Net Income">>,
       flag |-> "Could not compute OCF/Net Income (missing OCF or Net Income)."]>>

\* the latest value of a line item of the named statement
Item(ref) ==
    Cell(CASE ref[1] = "bs" -> balance_sheet [] ref[1] = "fs" -> financials
           [] ref[1] = "cf" -> cashflow, ref[2])

\* the m-th ratio has a number for numerator and a number other than 0 for denominator
Computable(m) ==
    /\ IsNum(Item(RatioMetrics[m].num))
    /\ IsNum(Item(RatioMetrics[m].den)) /\ Item(RatioMetrics[m].den).n # 0

\* numerator/denominator >= tn/td, resp. <= tn/td, for a computable ratio (td > 0)
RatioGe(m, tn, td) ==
    LET a == Item(RatioMetrics[m].num)
        b == Item(RatioMetrics[m].den)
        x == a.n * b.d * td
        y == tn * a.d * b.n
    IN  IF a.d * b.n > 0 THEN x >= y ELSE x <= y

RatioLe(m, tn, td) ==
    LET a == Item(RatioMetrics[m].num)
        b == Item(RatioMetrics[m].den)
        x == a.n * b.d * td
        y == tn * a.d * b.n
    IN  IF a.d * b.n > 0 THEN x <= y ELSE x >= y

MetricScore(m) == result.metric_scores[RatioMetrics[m].name]

\* C3: a ratio metric whose numerator or denominator is null for the latest period
\* (column absent, or present with NaN) or whose denominator is 0 scores 0, with a
\* 'could not compute' flag for Liquidity, Leverage, Profitability, Earnings Quality.
C3_NullScoresZero ==
    Scored =>
        \A m \in 1..6 :
            (\/ isna(Item(RatioMetrics[m].num))
             \/ isna(Item(RatioMetrics[m].den))
             \/ Item(RatioMetrics[m].den) = Num(0))
            => /\ MetricScore(m) = 0
               /\ RatioMetrics[m].flag # "" => HasFlag(RatioMetrics[m].flag)

\* C4: for three non-empty statements, whatever columns and nulls they hold, the
\* call returns an assessment and never raises.
C4_NeverRaises ==
    (/\ pc # "call"
     /\ HasContent(balance_sheet) /\ HasContent(financials) /\ HasContent(cashflow))
    => pc = "returned"

\* a/b rounded to the nearest integer, a tie to the even neighbour (a >= 0, b > 0)
RoundNearest(a, b) ==
    LET q == a \div b
        r == a % b
    IN  IF 2 * r < b THEN q
        ELSE IF 2 * r > b THEN q + 1
        ELSE q + (q % 2)

\* C5: the score is round(sum(metric_scores) / (10 * count) * 100) for every
\* combination of metric scores, those where sum * 1.25 ends in .5 included.
C5_RoundedTotal ==
    Scored =>
        result.score = RoundNearest(100 * SumOver(result.metric_scores, MetricNames),
                                    10 * Cardinality(MetricNames))

\* C6: the rating of a computed assessment is decided by its score alone, in bands
\* closed below at 80, 60 and 40, and "No Data" is the rating exactly of the early
\* exit: a computed score of 0 is rated "Risky".
C6_RatingBands ==
    pc = "returned" =>
        LET early == DOMAIN result.metric_scores = {}
            score == result.score
        IN  /\ early <=> ~(HasContent(balance_sheet) /\ HasContent(financials)
                            /\ HasContent(cashflow))
            /\ early <=> result.rating = "No Data"
            /\ ~early =>
                /\ result.rating = "Strong" <=> score >= 80
                /\ result.rating = "Okay" <=> (60 <= score /\ score < 80)
                /\ result.rating = "Weak" <=> (40 <= score /\ score < 60)
                /\ result.rating = "Risky" <=> score < 40

\* every metric computed and scoring 0
C6_Witness ==
    /\ Scored
    /\ \A m \in MetricNames : result.metric_scores[m] = 0
    /\ result.score = 0
    /\ result.rating = "Risky"

\* C7: with a computable current ratio, Liquidity scores 10 iff ratio >= 1.5, 7 iff
\* 1.0 <= ratio < 1.5, 4 iff 0.8 <= ratio < 1.0, and 1 iff ratio < 0.8.
C7_LiquidityBands ==
    (Scored /\ Computable(1)) =>
        /\ MetricScore(1) = 10 <=> RatioGe(1, 3, 2)
        /\ MetricScore(1) = 7 <=> (RatioGe(1, 1, 1) /\ ~RatioGe(1, 3, 2))
        /\ MetricScore(1) = 4 <=> (RatioGe(1, 4, 5) /\ ~RatioGe(1, 1, 1))
        /\ MetricScore(1) = 1 <=> ~RatioGe(1, 4, 5)

\* the example: current assets 150 over current liabilities 100, exactly 1.5
C7_Witness ==
    /\ Scored
    /\ Item(RatioMetrics[1].num) = Num(150)
    /\ Item(RatioMetrics[1].den) = Num(100)
    /\ MetricScore(1) = 10

\* the score of a metric whose bands are closed above at t1 < t2 < t3
LowBands(m, t1, t2, t3) ==
    /\ MetricScore(m) = 10 <=> RatioLe(m, t1[1], t1[2])
    /\ MetricScore(m) = 7 <=> (RatioLe(m, t2[1], t2[2]) /\ ~RatioLe(m, t1[1], t1[2]))
    /\ MetricScore(m) = 4 <=> (RatioLe(m, t3[1], t3[2]) /\ ~RatioLe(m, t2[1], t2[2]))
    /\ MetricScore(m) = 1 <=> ~RatioLe(m, t3[1], t3[2])

\* the score of a metric whose bands are closed below at t1 > t2 > t3
HighBands(m, t1, t2, t3) ==
    /\ MetricScore(m) = 10 <=> RatioGe(m, t1[1], t1[2])
    /\ MetricScore(m) = 7 <=> (RatioGe(m, t2[1], t2[2]) /\ ~RatioGe(m, t1[1], t1[2]))
    /\ MetricScore(m) = 4 <=> (RatioGe(m, t3[1], t3[2]) /\ ~RatioGe(m, t2[1], t2[2]))
    /\ MetricScore(m) = 1 <=> ~RatioGe(m, t3[1], t3[2])

\* C8: the other five ratio metrics, when computable, score by the band table with
\* inclusive thresholds: Leverage <=1.0, <=2.0, <=3.0; Solvency <=0.5, <=0.7, <=0.85;
\* Profitability >=0.20, >=0.12, >=0.06; Unit Economics >=0.40, >=0.25, >=0.15;
\* Earnings Quality >=1.2, >=0.9, >=0.6; to 10, 7, 4 and else 1.
C8_BandTable ==
    Scored =>
        /\ Computable(2) => LowBands(2, <<1, 1>>, <<2, 1>>, <<3, 1>>)
        /\ Computable(3) => LowBands(3, <<1, 2>>, <<7, 10>>, <<85, 100>>)
        /\ Computable(4) => HighBands(4, <<20, 100>>, <<12, 100>>, <<6, 100>>)
        /\ Computable(5) => HighBands(5, <<40, 100>>, <<25, 100>>, <<15, 100>>)
        /\ Computable(6) => HighBands(6, <<12, 10>>, <<9, 10>>, <<6, 10>>)

\* liabilities at exactly 0.85 of the assets
C8_Witness ==
    /\ Scored
    /\ Item(RatioMetrics[3].num) = Num(17)
    /\ Item(RatioMetrics[3].den) = Num(20)
    /\ MetricScore(3) = 4

FcfFlags ==
    [missing |-> "Free Cash Flow missing from Yahoo Finance for this ticker.",
     slight |-> "FCF slightly negative (may be investment-heavy period).",
     material |-> "FCF materially negative (funding needs can rise)."]

FcfScore == result.metric_scores["Free Cash Flow (FCF)"]

\* fcf > -0.05 * revenue, for numbers
AboveBound(fcf, revenue) == 20 * fcf.n * revenue.d > - revenue.n * fcf.d

\* C9: with Revenue present and non-zero, a missing FCF scores 0 with a flag, FCF > 0
\* scores 10 with no flag, FCF <= 0 above -0.05 * Revenue scores 6 with a flag, and
\* any other FCF scores 2 with a flag.
C9_FreeCashFlow ==
    LET fcf == Item(<<"cf", "Free Cash Flow">>)
        revenue == Item(<<"fs", "Total Revenue">>)
    IN  (Scored /\ IsNum(revenue) /\ revenue.n # 0) =>
            /\ isna(fcf) => (FcfScore = 0 /\ HasFlag(FcfFlags.missing))
            /\ (IsNum(fcf) /\ fcf.n > 0) =>
                    /\ FcfScore = 10
                    /\ ~HasFlag(FcfFlags.missing) /\ ~HasFlag(FcfFlags.slight)
                    /\ ~HasFlag(FcfFlags.material)
            /\ (IsNum(fcf) /\ fcf.n <= 0 /\ AboveBound(fcf, revenue)) =>
                    (FcfScore = 6 /\ HasFlag(FcfFlags.slight))
            /\ (IsNum(fcf) /\ fcf.n <= 0 /\ ~AboveBound(fcf, revenue)) =>
                    (FcfScore = 2 /\ HasFlag(FcfFlags.material))

\* a free cash flow of exactly 0 with positive revenue
C9_Witness ==
    /\ Scored
    /\ Item(<<"cf", "Free Cash Flow">>) = Num(0)
    /\ Item(<<"fs", "Total Revenue">>) = Num(20)
    /\ FcfScore = 6

\* C10: with FCF present and <= 0 and Revenue missing for the latest period (column
\* absent, NaN, or 0), the bound is that of Revenue 1: 6 iff FCF > -0.05, else 2.
C10_MissingRevenueAsOne ==
    LET fcf == Item(<<"cf", "Free Cash Flow">>)
        revenue == Item(<<"fs", "Total Revenue">>)
    IN  (Scored /\ IsNum(fcf) /\ fcf.n <= 0 /\ (isna(revenue) \/ revenue = Num(0))) =>
            /\ FcfScore = 6 <=> AboveBound(fcf, Num(1))
            /\ FcfScore = 2 <=> ~AboveBound(fcf, Num(1))

(***************************************************************************)
(* The trends of a call: the locals liab_trend .. inv_trend of             *)
(* score_company_health, kept in output beside the call's result.          *)
(***************************************************************************)
TrendItems ==
    <<[name |-> "liab_trend", stmt |-> "bs", field |-> "Total Liabilities Net Minority Interest",
       flag |-> "Liabilities grew >50% over last ~3 reported years (leverage trending up)."],
      [name |-> "rev_trend", stmt |-> "fs", field |-> "Total Revenue",
       flag |-> "Revenue trend is negative over last ~3 reported years."],
      [name |-> "ni_trend", stmt |-> "fs", field |-> "Net Income",
       flag |-> "Net income trend is negative over last ~3 reported years."],
      [name |-> "rec_trend", stmt |-> "bs", field |-> "Accounts Receivable",
       flag |-> "Receivables rising much faster than revenue (collection risk)."],
      [name |-> "inv_trend", stmt |-> "bs", field |-> "Inventory",
       flag |-> "Inventory rising much faster than revenue (demand/stock risk)."]>>

\* the five trends as the call computes them, for statements with content
trend_locals(bs_in, fs_in) ==
    LET bs3 == _last_n_years(sort_index(bs_in), 3)
        fs3 == _last_n_years(sort_index(fs_in), 3)
    IN  [liab_trend |-> _trend_pct(column(bs3, "Total Liabilities Net Minority Interest")),
         rev_trend |-> _trend_pct(column(fs3, "Total Revenue")),
         ni_trend |-> _trend_pct(column(fs3, "Net Income")),
         rec_trend |-> _trend_pct(column(bs3, "Accounts Receivable")),
         inv_trend |-> _trend_pct(column(bs3, "Inventory"))]

\* the locals of a call that computed no trend: the early exit, or an exception
NoTrends ==
    [liab_trend |-> NoneV, rev_trend |-> NoneV, ni_trend |-> NoneV, rec_trend |-> NoneV,
     inv_trend |-> NoneV]

\* a call of score_company_health, its trends kept
ScoreLocals ==
    /\ pc = "call"
    /\ LET r == score_company_health(balance_sheet, financials, cashflow)
       IN  /\ pc' = r.outcome
           /\ result' = r.value
           /\ output' = IF r.outcome = "returned" /\ DOMAIN r.value.metric_scores # {}
                        THEN trend_locals(balance_sheet, financials)
                        ELSE NoTrends
    /\ UNCHANGED <<balance_sheet, financials, cashflow>>
    /\ UNCHANGED <<provider, listoftickers, t_index, fill_method>>

\* bound: the reported years of a statement
MaxYears == 4

\* the cells a trend column holds
SeriesCells == {NaN, Num(0), Num(-4), Num(2), Num(4), Num(6)}

\* a statement of Len(cells) years whose column field holds cells (newest first) and
\* whose other columns repeat base; its rows newest first, or oldest first
Years(base, field, cells, ascending) ==
    LET n == Len(cells)
        newest == [k \in 1..n |-> Row(n - k + 1, Override(base, field :> cells[k]))]
    IN  Table(IF ascending THEN [k \in 1..n |-> newest[n - k + 1]] ELSE newest)

RECURSIVE Seqs(_, _)
\* the sequences of length n over S
Seqs(S, n) == IF n = 0 THEN {<<>>} ELSE {Append(s, x) : s \in Seqs(S, n - 1), x \in S}

\* latest and older value of a trend column, for trends below, at and above the
\* thresholds of its deduction
TrendPairs ==
    [liab |-> {<<Num(40), NaN>>, <<Num(40), Num(50)>>, <<Num(60), Num(40)>>, <<Num(40), Num(20)>>},
     rev |-> {<<Num(100), NaN>>, <<Num(100), Num(0)>>, <<Num(100), Num(80)>>,
              <<Num(100), Num(100)>>, <<Num(100), Num(200)>>},
     ni |-> {<<Num(20), NaN>>, <<Num(20), Num(10)>>, <<Num(20), Num(40)>>},
     rec |-> {<<Num(8), NaN>>, <<Num(8), Num(8)>>, <<Num(12), Num(8)>>, <<Num(8), Num(4)>>},
     inv |-> {<<Num(5), NaN>>, <<Num(5), Num(5)>>, <<Num(6), Num(4)>>, <<Num(5), Num(2)>>}]

\* one trend column over 1..MaxYears years of every content, and the five trends
\* together over two years
InitTrends ==
    \/ \E n \in 1..MaxYears, ascending \in BOOLEAN :
         \E cells \in Seqs(SeriesCells, n) :
            Start(Years(LatestBS, "Total Liabilities Net Minority Interest", cells, ascending),
                  TwoYears(LatestFS, OlderFS), TwoYears(LatestCF, OlderCF))
    \/ \E n \in 1..MaxYears :
         \E cells \in Seqs({NaN, Num(0), Num(-4), Num(4), Num(6)}, n) :
            Start(TwoYears(LatestBS, OlderBS),
                  Years(LatestFS, "Total Revenue", cells, FALSE), TwoYears(LatestCF, OlderCF))
    \/ \E liab \in TrendPairs.liab, rev \in TrendPairs.rev, ni \in TrendPairs.ni,
          rec \in TrendPairs.rec, inv \in TrendPairs.inv :
            Start(TwoYears(Override(LatestBS,
                                ("Total Liabilities Net Minority Interest" :> liab[1])
                                @@ ("Accounts Receivable" :> rec[1]) @@ ("Inventory" :> inv[1])),
                           Override(OlderBS,
                                ("Total Liabilities Net Minority Interest" :> liab[2])
                                @@ ("Accounts Receivable" :> rec[2]) @@ ("Inventory" :> inv[2]))),
                  TwoYears(Override(LatestFS, ("Total Revenue" :> rev[1]) @@ ("Net Income" :> ni[1])),
                           Override(OlderFS, ("Total Revenue" :> rev[2]) @@ ("Net Income" :> ni[2]))),
                  TwoYears(LatestCF, OlderCF))

NextTrends == ScoreLocals

SpecTrends == InitTrends /\ [][NextTrends]_vars

\* the periods of a statement, and its most recent 3
Periods(df) == {df.rows[k].period : k \in 1..Len(df.rows)}

RecentPeriods(df) == {p \in Periods(df) : Cardinality({q \in Periods(df) : q > p}) < 3}

ValueAt(df, field, p) ==
    df.rows[CHOOSE k \in 1..Len(df.rows) : df.rows[k].period = p].vals[field]

\* (last - first) / abs(first) over the usable points of the most recent 3 periods
ExpectedTrend(df, field) ==
    LET usable == {p \in RecentPeriods(df) : IsNum(ValueAt(df, field, p))}
        first == ValueAt(df, field, CHOOSE p \in usable : \A q \in usable : p <= q)
        last == ValueAt(df, field, CHOOSE p \in usable : \A q \in usable : q <= p)
    IN  IF Cardinality(usable) < 2 THEN NoneV
        ELSE IF first.n = 0 THEN NoneV
        ELSE Rat(last.n * first.d - first.n * last.d, last.d * AbsInt(first.n))

Statement(name) == IF name = "bs" THEN balance_sheet ELSE financials

\* C11: each trend is (last - first) / abs(first) over the usable points of the most
\* recent 3 periods in ascending period order, null with fewer than 2 usable points
\* or with first = 0; and a null trend never triggers its deduction.
C11_Trend ==
    Scored =>
        \A k \in 1..5 :
            LET item == TrendItems[k]
                trend == output[item.name]
            IN  /\ trend = ExpectedTrend(Statement(item.stmt), item.field)
                /\ IsNone(trend) => ~HasFlag(item.flag)

\* four years, the oldest outside the window and a null inside it: (6 - 2) / 2
C11_Witness ==
    /\ Scored
    /\ Len(balance_sheet.rows) = 4
    /\ ValueAt(balance_sheet, "Total Liabilities Net Minority Interest", 1) = Num(4)
    /\ ValueAt(balance_sheet, "Total Liabilities Net Minority Interest", 2) = Num(2)
    /\ ValueAt(balance_sheet, "Total Liabilities Net Minority Interest", 3) = NaN
    /\ ValueAt(balance_sheet, "Total Liabilities Net Minority Interest", 4) = Num(6)
    /\ output.liab_trend = Num(2)
    /\ HasFlag(TrendItems[1].flag)

\* the conditions of the five deductions on the trends of the call
DeductionApplies(t) ==
    [liab_trend |-> IsNum(t.liab_trend) /\ 2 * t.liab_trend.n > t.liab_trend.d,
     rev_trend |-> IsNum(t.rev_trend) /\ t.rev_trend.n < 0,
     ni_trend |-> IsNum(t.ni_trend) /\ t.ni_trend.n < 0,
     rec_trend |-> /\ IsNum(t.rec_trend) /\ IsNum(t.rev_trend)
                   /\ 4 * t.rec_trend.n * t.rev_trend.d
                        > 4 * t.rev_trend.n * t.rec_trend.d + t.rec_trend.d * t.rev_trend.d,
     inv_trend |-> /\ IsNum(t.inv_trend) /\ IsNum(t.rev_trend)
                   /\ 4 * t.inv_trend.n * t.rev_trend.d
                        > 4 * t.rev_trend.n * t.inv_trend.d + t.inv_trend.d * t.rev_trend.d]

Points(cond, points) == IF cond THEN points ELSE 0

\* C12: Trend Checks is max(0, 10 - 3[liabilities trend > 0.5] - 3[revenue trend < 0]
\* - 3[net income trend < 0] - 2[receivables trend > revenue trend + 0.25]
\* - 2[inventory trend > revenue trend + 0.25]); each deduction appends its flag
\* exactly when applied, the last two never with a null revenue trend.
C12_TrendChecks ==
    Scored =>
        LET c == DeductionApplies(output)
            left == 10 - Points(c.liab_trend, 3) - Points(c.rev_trend, 3)
                       - Points(c.ni_trend, 3) - Points(c.rec_trend, 2)
                       - Points(c.inv_trend, 2)
        IN  /\ result.metric_scores["Trend Checks (3y)"] = (IF left < 0 THEN 0 ELSE left)
            /\ \A k \in 1..5 : HasFlag(TrendItems[k].flag) <=> c[TrendItems[k].name]
            /\ IsNone(output.rev_trend) =>
                    (~HasFlag(TrendItems[4].flag) /\ ~HasFlag(TrendItems[5].flag))

\* all five deductions apply: 10 - 13, floored at 0
C12_Witness ==
    /\ Scored
    /\ \A k \in 1..5 : HasFlag(TrendItems[k].flag)
    /\ output.rev_trend = Rat(-1, 2)
    /\ result.metric_scores["Trend Checks (3y)"] = 0

(***************************************************************************)
(* The statement normalizer of src/financialstatementfunctions_p.py.  A    *)
(* table here is [columns, rows]: columns the column names in order, rows  *)
(* as above.  provider[ticker] is what the data provider returns for the   *)
(* ticker: ok = FALSE when the request fails with an exception, else the   *)
(* three raw statements, transposed (index = period).                      *)
(***************************************************************************)
Range(s) == {s[k] : k \in 1..Len(s)}

\* a bug: only the fields the raw table has are selected
_select_existing(df, cols) ==
    LET kept == SelectSeq(cols, LAMBDA c : c \in Range(df.columns))
    IN  [columns |-> kept,
         rows |-> [k \in 1..Len(df.rows) |->
                     [period |-> df.rows[k].period,
                      vals |-> [c \in Range(kept) |-> df.rows[k].vals[c]]]]]

\* df.reindex(columns=cols)
_safe_select_columns(df, cols) ==
    [columns |-> cols,
     rows |-> [k \in 1..Len(df.rows) |->
                 [period |-> df.rows[k].period,
                  vals |-> [c \in Range(cols) |->
                              IF c \in Range(df.columns) THEN df.rows[k].vals[c] ELSE NaN]]]]

\* the name found, or None
NoName == [isNone |-> TRUE, name |-> ""]

RECURSIVE _last_existing(_, _)
\* a bug: the candidates tried from the last to the first
_last_existing(df, candidates) ==
    IF candidates = <<>> THEN NoName
    ELSE IF candidates[Len(candidates)] \in Range(df.columns)
    THEN [isNone |-> FALSE, name |-> candidates[Len(candidates)]]
    ELSE _last_existing(df, SubSeq(candidates, 1, Len(candidates) - 1))

RECURSIVE _first_existing(_, _)
_first_existing(df, candidates) ==
    IF candidates = <<>> THEN NoName
    ELSE IF Head(candidates) \in Range(df.columns)
    THEN [isNone |-> FALSE, name |-> Head(candidates)]
    ELSE _first_existing(df, Tail(candidates))

current_Assets_columns ==
    <<"Cash And Cash Equivalents", "Other Short Term Investments", "Accounts Receivable",
      "Inventory", "Other Current Assets", "Current Assets">>

non_current_Assets_columns ==
    <<"Net PPE", "Investments And Advances", "Other Non Current Assets",
      "Total Non Current Assets">>

current_liabilities_columns ==
    <<"Other Current Liabilities", "Current Deferred Liabilities",
      "Current Debt And Capital Lease Obligation", "Payables And Accrued Expenses",
      "Current Liabilities">>

non_current_liabilities_columns ==
    <<"Other Non Current Liabilities", "Long Term Debt And Capital Lease Obligation",
      "Total Non Current Liabilities Net Minority Interest">>

financialcolumns ==
    <<"Total Revenue", "Gross Profit", "Cost Of Revenue", "Operating Income",
      "Operating Expense", "Other Non Operating Income Expenses", "Tax Provision",
      "Pretax Income", "Net Income", "Diluted NI Availto Com Stockholders",
      "Net Interest Income", "Interest Expense", "Interest Income", "Normalized Income",
      "Net Income From Continuing And Discontinued Operation", "Total Expenses",
      "Diluted Average Shares", "Basic Average Shares", "Diluted EPS", "Basic EPS",
      "Other Income Expense", "Tax Effect Of Unusual Items", "Tax Rate For Calcs",
      "Normalized EBITDA", "Net Income From Continuing Operation Net Minority Interest",
      "Reconciled Depreciation", "Reconciled Cost Of Revenue", "EBITDA", "EBIT">>

cashflowcolumns ==
    <<"Free Cash Flow", "Repurchase Of Capital Stock", "Repayment Of Debt", "Issuance Of Debt",
      "Capital Expenditure", "End Cash Position", "Financing Cash Flow",
      "Investing Cash Flow", "Operating Cash Flow">>

equity_candidates ==
    <<"Total Equity Gross Minority Interest", "Stockholders Equity",
      "Total Stockholder Equity", "Common Stock Equity", "Total Equity">>

get_Assets(balancesheet) ==
    [current_Assets |-> _safe_select_columns(balancesheet, current_Assets_columns),
     non_current_Assets |-> _safe_select_columns(balancesheet, non_current_Assets_columns),
     total_Assets |-> _safe_select_columns(balancesheet, <<"Total Assets">>)]

get_Liabilities(balancesheet) ==
    [current_Liabilities |-> _safe_select_columns(balancesheet, current_liabilities_columns),
     non_current_Liabilities |->
        _safe_select_columns(balancesheet, non_current_liabilities_columns),
     total_Liabilities |->
        _safe_select_columns(balancesheet, <<"Total Liabilities Net Minority Interest">>)]

get_Equity(balancesheet) ==
    LET col == _first_existing(balancesheet, equity_candidates)
    IN  [columns |-> <<"Total Equity Gross Minority Interest">>,
         rows |-> [k \in 1..Len(balancesheet.rows) |->
                     [period |-> balancesheet.rows[k].period,
                      vals |-> "Total Equity Gross Minority Interest" :>
                                 (IF col.isNone THEN NaN
                                  ELSE balancesheet.rows[k].vals[col.name])]]]

\* the seven tables of a ticker's balance sheet
extract_balance_sheet(ticker) ==
    LET balancesheet == provider[ticker].balancesheet
        assets == get_Assets(balancesheet)
        liabilities == get_Liabilities(balancesheet)
    IN  [current_Assets |-> assets.current_Assets,
         non_current_Assets |-> assets.non_current_Assets,
         total_Assets |-> assets.total_Assets,
         current_Liabilities |-> liabilities.current_Liabilities,
         non_current_Liabilities |-> liabilities.non_current_Liabilities,
         total_Liabilities |-> liabilities.total_Liabilities,
         total_ShareHolderEquity |-> get_Equity(balancesheet)]

get_Financial(ticker) == _safe_select_columns(provider[ticker].financials, financialcolumns)

get_CashFLow(ticker) == _safe_select_columns(provider[ticker].cashflow, cashflowcolumns)

\* the dashboard's statement helpers applied to the first ticker: its normalized
\* tables, and the column get_Equity picked
Extract ==
    /\ pc = "extract"
    /\ LET ticker == listoftickers[1]
       IN  IF ~provider[ticker].ok
           THEN /\ pc' = "raised"
                /\ output' = <<>>
           ELSE /\ pc' = "done"
                /\ output' = [balance |-> extract_balance_sheet(ticker),
                              col |-> _first_existing(provider[ticker].balancesheet,
                                                      equity_candidates),
                              financial |-> get_Financial(ticker),
                              cashflow |-> get_CashFLow(ticker)]
    /\ UNCHANGED <<balance_sheet, financials, cashflow, result>>
    /\ UNCHANGED <<provider, listoftickers, t_index, fill_method>>

\* no call of the scorer is in progress
NoCall ==
    /\ balance_sheet = NoneDF
    /\ financials = NoneDF
    /\ cashflow = NoneDF
    /\ result = NoResult

\* the columns a raw balance sheet may hold, canonical ones and others
RawBalanceColumns ==
    <<"Total Assets", "Current Assets", "Goodwill", "Inventory", "Common Stock Equity",
      "Stockholders Equity", "Total Equity Gross Minority Interest", "Current Liabilities">>

Reverse(s) == [k \in 1..Len(s) |-> s[Len(s) - k + 1]]

\* bound: the reported periods of a raw statement
MaxPeriods == 2

\* a raw table of the given columns and n periods, newest first; each cell tells
\* its column and period apart, and the oldest Inventory is null
RawTable(universe, columns, n) ==
    [columns |-> columns,
     rows |-> [k \in 1..n |->
                 [period |-> n - k + 1,
                  vals |-> [c \in Range(columns) |->
                              IF c = "Inventory" /\ k = n THEN NaN
                              ELSE Num(10 * (CHOOSE j \in 1..Len(universe) : universe[j] = c)
                                       + (n - k + 1))]]]]

RawFinancialColumns == <<"EBIT", "Dividends Paid", "Total Revenue", "Net Income">>

RawCashflowColumns == <<"Operating Cash Flow", "Free Cash Flow", "Change In Cash">>

Failure == [ok |-> FALSE, balancesheet |-> <<>>, financials |-> <<>>, cashflow |-> <<>>]

\* one ticker: every choice of raw balance-sheet columns in two orders, 0 to
\* MaxPeriods periods; or a request that fails
InitNormalize ==
    /\ NoCall
    /\ pc = "extract"
    /\ listoftickers = <<"AAPL">>
    /\ t_index = 0
    /\ output = <<>>
    /\ fill_method = "pad"
    /\ \/ \E S \in SUBSET Range(RawBalanceColumns), reversed \in BOOLEAN, n \in 0..MaxPeriods,
             F \in {{}, {"Total Revenue"}, Range(RawFinancialColumns)} :
            LET pick(u, T) == SelectSeq(IF reversed THEN Reverse(u) ELSE u, LAMBDA c : c \in T)
            IN  provider = "AAPL" :>
                    [ok |-> TRUE,
                     balancesheet |-> RawTable(RawBalanceColumns, pick(RawBalanceColumns, S), n),
                     financials |-> RawTable(RawFinancialColumns, pick(RawFinancialColumns, F), n),
                     cashflow |-> RawTable(RawCashflowColumns, RawCashflowColumns, n)]
       \/ provider = "AAPL" :> Failure

NextNormalize == Extract

SpecNormalize == InitNormalize /\ [][NextNormalize]_vars

\* out is raw restricted and widened to the canonical list cols
NormalizedTo(out, raw, cols) ==
    /\ out.columns = cols
    /\ Len(out.rows) = Len(raw.rows)
    /\ \A k \in 1..Len(raw.rows) :
        /\ out.rows[k].period = raw.rows[k].period
        /\ DOMAIN out.rows[k].vals = Range(cols)
        /\ \A c \in Range(cols) :
            /\ c \notin Range(raw.columns) => out.rows[k].vals[c] = NaN
            /\ c \in Range(raw.columns) => out.rows[k].vals[c] = raw.rows[k].vals[c]

\* C14: each normalized table has exactly the columns of its canonical list in that
\* order, every field absent from the raw table null in every row, the other raw
\* columns dropped, the raw table's rows in their order; and nothing is raised
\* whatever columns the raw table has.
C14_Normalized ==
    (pc # "extract" /\ provider[listoftickers[1]].ok) =>
        /\ pc = "done"
        /\ LET raw == provider[listoftickers[1]]
               b == output.balance
           IN  /\ NormalizedTo(b.current_Assets, raw.balancesheet, current_Assets_columns)
               /\ NormalizedTo(b.non_current_Assets, raw.balancesheet,
                               non_current_Assets_columns)
               /\ NormalizedTo(b.total_Assets, raw.balancesheet, <<"Total Assets">>)
               /\ NormalizedTo(b.current_Liabilities, raw.balancesheet,
                               current_liabilities_columns)
               /\ NormalizedTo(b.non_current_Liabilities, raw.balancesheet,
                               non_current_liabilities_columns)
               /\ NormalizedTo(b.total_Liabilities, raw.balancesheet,
                               <<"Total Liabilities Net Minority Interest">>)
               /\ NormalizedTo(output.financial, raw.financials, financialcolumns)
               /\ NormalizedTo(output.cashflow, raw.cashflow, cashflowcolumns)

\* a raw balance sheet with Goodwill and Current Assets and without Inventory, its
\* columns in reverse order, over two periods
C14_Witness ==
    /\ pc = "done"
    /\ provider["AAPL"].balancesheet.columns = <<"Current Liabilities", "Goodwill", "Current Assets">>
    /\ Len(output.balance.current_Assets.rows) = 2
    /\ output.balance.current_Assets.rows[1].period = 2
    /\ output.balance.current_Assets.rows[1].vals["Inventory"] = NaN
    /\ output.balance.current_Assets.rows[1].vals["Current Assets"] = Num(22)

\* the value of the earliest equity candidate the raw row has, null when it has none
ExpectedEquity(raw, k) ==
    LET found == {j \in 1..Len(equity_candidates) : equity_candidates[j] \in Range(raw.columns)}
    IN  IF found = {} THEN NaN
        ELSE raw.rows[k].vals[equity_candidates[CHOOSE j \in found : \A h \in found : j <= h]]

\* C15: _first_existing returns the earliest candidate that is a column of the raw
\* table, None when none is; get_Equity returns one column named 'Total Equity Gross
\* Minority Interest' over the raw table's rows, holding the first matching
\* candidate's values, or null throughout when no candidate exists.
C15_Equity ==
    (pc = "done" /\ provider[listoftickers[1]].ok) =>
        LET raw == provider[listoftickers[1]].balancesheet
            equity == output.balance.total_ShareHolderEquity
            found == {j \in 1..Len(equity_candidates) :
                        equity_candidates[j] \in Range(raw.columns)}
        IN  /\ output.col.isNone <=> found = {}
            /\ ~output.col.isNone =>
                    \E j \in found : /\ output.col.name = equity_candidates[j]
                                     /\ \A h \in found : j <= h
            /\ equity.columns = <<"Total Equity Gross Minority Interest">>
            /\ Len(equity.rows) = Len(raw.rows)
            /\ \A k \in 1..Len(raw.rows) :
                /\ equity.rows[k].period = raw.rows[k].period
                /\ DOMAIN equity.rows[k].vals = {"Total Equity Gross Minority Interest"}
                /\ equity.rows[k].vals["Total Equity Gross Minority Interest"]
                        = ExpectedEquity(raw, k)

\* 'Stockholders Equity' and the later 'Common Stock Equity' both present: the
\* earlier one wins
C15_Witness ==
    /\ pc = "done"
    /\ Range(provider["AAPL"].balancesheet.columns)
            = {"Total Assets", "Common Stock Equity", "Stockholders Equity"}
    /\ output.col.name = "Stockholders Equity"
    /\ Len(output.balance.total_ShareHolderEquity.rows) = 2
    /\ output.balance.total_ShareHolderEquity.rows[1].vals["Total Equity Gross Minority Interest"]
            = Num(62)

(***************************************************************************)
(* The ratio engine.  A Series is a sequence of [period, v]; the columns   *)
(* of the statements are float64, where a division by 0 yields an          *)
(* infinity (or NaN for 0/0) instead of raising.                           *)
(***************************************************************************)
PosInf == [k |-> "inf", n |-> 1, d |-> 1]

NegInf == [k |-> "inf", n |-> -1, d |-> 1]

IsInf(v) == v.k = "inf"

Sign(x) == IF x < 0 THEN -1 ELSE 1

Inf(sign) == IF sign < 0 THEN NegInf ELSE PosInf

\* float64 a / b
truediv(a, b) ==
    IF ~(IsNum(a) \/ IsInf(a)) \/ ~(IsNum(b) \/ IsInf(b)) THEN NaN
    ELSE IF IsInf(a) THEN (IF IsInf(b) THEN NaN ELSE Inf(a.n * Sign(b.n)))
    ELSE IF IsInf(b) THEN Num(0)
    ELSE IF b.n = 0 THEN (IF a.n = 0 THEN NaN ELSE Inf(a.n))
    ELSE Rat(a.n * b.d, a.d * b.n)

\* float64 a * c for a number c > 0
mul(a, c) ==
    IF IsNum(a) THEN Rat(a.n * c.n, a.d * c.d)
    ELSE IF IsInf(a) THEN a
    ELSE NaN

\* float64 a - c for a number c
sub(a, c) ==
    IF IsNum(a) THEN Rat(a.n * c.d - c.n * a.d, a.d * c.d)
    ELSE IF IsInf(a) THEN a
    ELSE NaN

\* df[key] of a table that has the column
getitem(df, key) ==
    [k \in 1..Len(df.rows) |-> [period |-> df.rows[k].period, v |-> df.rows[k].vals[key]]]

Index(s) == [k \in 1..Len(s) |-> s[k].period]

RECURSIVE SortedSeq(_)
\* a set of periods in ascending order
SortedSeq(S) ==
    IF S = {} THEN <<>>
    ELSE LET least == CHOOSE x \in S : \A y \in S : x <= y
         IN  <<least>> \o SortedSeq(S \ {least})

\* the value of a series at a period, null where the series has none
At(s, p) ==
    IF p \in Range(Index(s)) THEN s[CHOOSE k \in 1..Len(s) : s[k].period = p].v ELSE NaN

\* x / y of two Series: label by label; over the sorted union of the labels when
\* the two indexes differ
SeriesDiv(x, y) ==
    IF Index(x) = Index(y)
    THEN [k \in 1..Len(x) |-> [period |-> x[k].period, v |-> truediv(x[k].v, y[k].v)]]
    ELSE LET labels == SortedSeq(Range(Index(x)) \cup Range(Index(y)))
         IN  [k \in 1..Len(labels) |->
                [period |-> labels[k], v |-> truediv(At(x, labels[k]), At(y, labels[k]))]]

\* pd.DataFrame({name: series})
DataFrame(name, s) ==
    [columns |-> <<name>>,
     rows |-> [k \in 1..Len(s) |-> [period |-> s[k].period, vals |-> name :> s[k].v]]]

get_CurrentRatio(current_Assets, current_Liabilities) ==
    DataFrame("Current Ratio",
              SeriesDiv(getitem(current_Assets, "Current Assets"),
                        getitem(current_Liabilities, "Current Liabilities")))

get_DebttoEquityRatio(total_Liabilities, total_ShareHolderEquity) ==
    DataFrame("Debt_to_Equity_Ratio",
              SeriesDiv(getitem(total_Liabilities, "Total Liabilities Net Minority Interest"),
                        getitem(total_ShareHolderEquity, "Total Equity Gross Minority Interest")))

get_EquityMultiplierRatio(total_Assets, total_ShareHolderEquity) ==
    DataFrame("Equity_Multiplier_Ratio",
              SeriesDiv(getitem(total_Assets, "Total Assets"),
                        getitem(total_ShareHolderEquity, "Total Equity Gross Minority Interest")))

get_DebttoAssetsRatio(total_Liabilities, total_Assets) ==
    DataFrame("Debt_To_Assets_Ratio",
              SeriesDiv(getitem(total_Liabilities, "Total Liabilities Net Minority Interest"),
                        getitem(total_Assets, "Total Assets")))

get_AssetTurnoverRatio(total_Revenue, total_Assets) ==
    DataFrame("Asset Turnover Ratio",
              SeriesDiv(getitem(total_Revenue, "Total Revenue"),
                        getitem(total_Assets, "Total Assets")))

get_CashFlowtoNetIncomeRatio(cashflow_df, financial) ==
    DataFrame("Cash Flow to Income Ratio",
              SeriesDiv(getitem(cashflow_df, "Operating Cash Flow"),
                        getitem(financial, "Net Income")))

get_OperatingCashFlowRatio(cashflow_df, current_Liabilities) ==
    DataFrame("Operating Cash Flow Ratio",
              SeriesDiv(getitem(cashflow_df, "Operating Cash Flow"),
                        getitem(current_Liabilities, "Current Liabilities")))

Times100(s) == [k \in 1..Len(s) |-> [period |-> s[k].period, v |-> mul(s[k].v, Num(100))]]

get_GrossProfitMargin(financial) ==
    DataFrame("Gross Profit Margin",
              Times100(SeriesDiv(getitem(financial, "Gross Profit"),
                                 getitem(financial, "Total Revenue"))))

get_OperatingProfit_Margin(financial) ==
    DataFrame("Operating Profit Margin",
              Times100(SeriesDiv(getitem(financial, "EBIT"),
                                 getitem(financial, "Total Revenue"))))

\* financial['Total Revenue'] of the raw income statement as a table, for a raw
\* statement that has the column (a KeyError otherwise)
get_TotalRevenue(ticker) ==
    DataFrame("Total Revenue", getitem(provider[ticker].financials, "Total Revenue"))

\* whether the requests and the column accesses on a ticker's raw statements succeed
Available(ticker) ==
    /\ provider[ticker].ok
    /\ "Total Revenue" \in Range(provider[ticker].financials.columns)

\* the nine ratios of one ticker
ratios_of(ticker) ==
    LET b == extract_balance_sheet(ticker)
        total_Revenue == get_TotalRevenue(ticker)
        financial == get_Financial(ticker)
        cashflow_df == get_CashFLow(ticker)
    IN  [current_Ratio |-> get_CurrentRatio(b.current_Assets, b.current_Liabilities),
         debt_to_equity_Ratio |->
            get_DebttoEquityRatio(b.total_Liabilities, b.total_ShareHolderEquity),
         equity_multiplier_Ratio |->
            get_EquityMultiplierRatio(b.total_Assets, b.total_ShareHolderEquity),
         debt_to_assets_Ratio |-> get_DebttoAssetsRatio(b.total_Liabilities, b.total_Assets),
         asset_turnover_Ratio |-> get_AssetTurnoverRatio(total_Revenue, b.total_Assets),
         cash_flow_to_net_income_Ratio |-> get_CashFlowtoNetIncomeRatio(cashflow_df, financial),
         operating_cash_flow_Ratio |->
            get_OperatingCashFlowRatio(cashflow_df, b.current_Liabilities),
         gross_profit_Margin |-> get_GrossProfitMargin(financial),
         operating_profit_Margin |-> get_OperatingProfit_Margin(financial)]

\* the ratio engine applied to the first ticker's statements
Ratios ==
    /\ pc = "ratios"
    /\ IF Available(listoftickers[1])
       THEN /\ pc' = "done"
            /\ output' = ratios_of(listoftickers[1])
       ELSE /\ pc' = "raised"
            /\ output' = <<>>
    /\ UNCHANGED <<balance_sheet, financials, cashflow, result>>
    /\ UNCHANGED <<provider, listoftickers, t_index, fill_method>>

\* the order of the columns of the raw statements
BalanceOrder ==
    <<"Total Assets", "Total Liabilities Net Minority Interest",
      "Total Equity Gross Minority Interest", "Cash And Cash Equivalents",
      "Accounts Receivable", "Inventory", "Current Assets", "Current Liabilities">>

FinancialOrder == <<"Total Revenue", "Gross Profit", "Net Income", "EBIT">>

CashflowOrder == <<"Operating Cash Flow", "Capital Expenditure", "Free Cash Flow">>

\* a statement as the raw table the provider returns, its columns in the given order
RawFrom(df, order) ==
    [columns |-> SelectSeq(order, LAMBDA c : c \in df.cols), rows |-> df.rows]

\* a ticker's raw statements for two years, the latest year's line items overridden
RawWith(bs_over, fs_over, cf_over) ==
    [ok |-> TRUE,
     balancesheet |-> RawFrom(TwoYears(Override(LatestBS, bs_over), OlderBS), BalanceOrder),
     financials |-> RawFrom(TwoYears(Override(LatestFS, fs_over), OlderFS), FinancialOrder),
     cashflow |-> RawFrom(TwoYears(Override(LatestCF, cf_over), OlderCF), CashflowOrder)]

\* the nine ratios: the output table and its column, numerator and denominator
RatioNames ==
    <<[table |-> "current_Ratio", column |-> "Current Ratio",
       num |-> <<"balancesheet", "Current Assets">>,
       den |-> <<"balancesheet", "Current Liabilities">>],
      [table |-> "debt_to_equity_Ratio", column |-> "Debt_to_Equity_Ratio",
       num |-> <<"balancesheet", "Total Liabilities Net Minority Interest">>,
       den |-> <<"balancesheet", "Total Equity Gross Minority Interest">>],
      [table |-> "equity_multiplier_Ratio", column |-> "Equity_Multiplier_Ratio",
       num |-> <<"balancesheet", "Total Assets">>,
       den |-> <<"balancesheet", "Total Equity Gross Minority Interest">>],
      [table |-> "debt_to_assets_Ratio", column |-> "Debt_To_Assets_Ratio",
       num |-> <<"balancesheet", "Total Liabilities Net Minority Interest">>,
       den |-> <<"balancesheet", "Total Assets">>],
      [table |-> "asset_turnover_Ratio", column |-> "Asset Turnover Ratio",
       num |-> <<"financials", "Total Revenue">>, den |-> <<"balancesheet", "Total Assets">>],
      [table |-> "cash_flow_to_net_income_Ratio", column |-> "Cash Flow to Income Ratio",
       num |-> <<"cashflow", "Operating Cash Flow">>, den |-> <<"financials", "Net Income">>],
      [table |-> "operating_cash_flow_Ratio", column |-> "Operating Cash Flow Ratio",
       num |-> <<"cashflow", "Operating Cash Flow">>,
       den |-> <<"balancesheet", "Current Liabilities">>],
      [table |-> "gross_profit_Margin", column |-> "Gross Profit Margin",
       num |-> <<"financials", "Gross Profit">>, den |-> <<"financials", "Total Revenue">>],
      [table |-> "operating_profit_Margin", column |-> "Operating Profit Margin",
       num |-> <<"financials", "EBIT">>, den |-> <<"financials", "Total Revenue">>]>>

\* bound: the magnitude of the cells of a ratio
MaxCell == 3

RatioCells == {Num(10 * x) : x \in -MaxCell..MaxCell} \cup {NaN, Absent}

\* the override that sets a line item of a statement
Set(ref, stmt, cell) == IF ref[1] = stmt THEN ref[2] :> cell ELSE EmptyDict

\* numerator and denominator of one ratio vary over numbers, 0, null and an absent
\* column (Total Revenue, which get_TotalRevenue reads from the raw table, is never
\* absent); or the cash flow statement lacks the older year
InitRatioEngine ==
    /\ NoCall
    /\ pc = "ratios"
    /\ listoftickers = <<"AAPL">>
    /\ t_index = 0
    /\ output = <<>>
    /\ fill_method = "pad"
    /\ \E m \in 1..Len(RatioNames), a \in RatioCells, b \in RatioCells, short \in BOOLEAN :
        LET num == RatioNames[m].num
            den == RatioNames[m].den
            over(stmt) == Set(den, stmt, b) @@ Set(num, stmt, a)
            raw == RawWith(over("balancesheet"), over("financials"), over("cashflow"))
        IN  /\ "Total Revenue" \in Range(raw.financials.columns)
            /\ provider = "AAPL" :>
                   (IF short
                    THEN [raw EXCEPT !.cashflow.rows = SubSeq(raw.cashflow.rows, 1, 1)]
                    ELSE raw)

NextRatioEngine == Ratios

SpecRatioEngine == InitRatioEngine /\ [][NextRatioEngine]_vars

\* the field of a ticker's raw statement at a period: null when the statement has
\* no such column or no such period
FieldAt(ticker, ref, p) ==
    LET raw == provider[ticker][ref[1]]
    IN  IF ref[2] \in Range(raw.columns) /\ \E k \in 1..Len(raw.rows) : raw.rows[k].period = p
        THEN raw.rows[CHOOSE k \in 1..Len(raw.rows) : raw.rows[k].period = p].vals[ref[2]]
        ELSE NaN

\* C16: for each of the nine ratios and every period, a denominator that is null or
\* 0, or a null numerator, gives a null ratio; nothing is raised and no ratio is
\* +infinity or -infinity.
C16_NullRatio ==
    pc # "ratios" =>
        /\ pc = "done"
        /\ \A m \in 1..Len(RatioNames) :
            LET r == RatioNames[m]
                rows == output[r.table].rows
            IN  \A k \in 1..Len(rows) :
                    LET v == rows[k].vals[r.column]
                        a == FieldAt(listoftickers[1], r.num, rows[k].period)
                        b == FieldAt(listoftickers[1], r.den, rows[k].period)
                    IN  /\ ~IsInf(v)
                        /\ (isna(a) \/ isna(b) \/ b = Num(0)) => v = NaN

(***************************************************************************)
(* The portfolio batch: the ratio tables and the statements of a list of   *)
(* tickers, concatenated and tagged with the company.                      *)
(***************************************************************************)
\* df['Company'] = [ticker] * len(df)
tag(df, ticker) ==
    [columns |-> Append(df.columns, "Company"),
     rows |-> [k \in 1..Len(df.rows) |->
                 [period |-> df.rows[k].period, vals |-> df.rows[k].vals,
                  Company |-> ticker]]]

RECURSIVE concat(_)
\* pd.concat(df_list) of a non-empty list of tables with the same columns
concat(df_list) ==
    IF Len(df_list) = 1 THEN df_list[1]
    ELSE [columns |-> df_list[1].columns,
          rows |-> df_list[1].rows \o concat(Tail(df_list)).rows]

\* the ratio tables get_RatiosofMultipleCompanies collects, in the order returned
SevenRatios ==
    <<"current_Ratio", "debt_to_equity_Ratio", "equity_multiplier_Ratio",
      "debt_to_assets_Ratio", "asset_turnover_Ratio", "cash_flow_to_net_income_Ratio",
      "operating_cash_flow_Ratio">>

\* whether [ticker] * len(current_Ratio) has the length of each of the seven ratio
\* tables (a ValueError otherwise)
TagFits(ticker) ==
    LET r == ratios_of(ticker)
    IN  \A m \in 1..Len(SevenRatios) :
            Len(r[SevenRatios[m]].rows) = Len(r.current_Ratio.rows)

\* whether the loop over the tickers raises nothing
Completes(tickers) ==
    \A k \in 1..Len(tickers) : Available(tickers[k]) /\ TagFits(tickers[k])

\* the seven concatenated ratio tables, for a list on which the loop completes
get_RatiosofMultipleCompanies(tickers) ==
    [m \in 1..Len(SevenRatios) |->
        concat([k \in 1..Len(tickers) |->
                   tag(ratios_of(tickers[k])[SevenRatios[m]], tickers[k])])]

RECURSIVE Unique(_)
\* the elements of a sequence in the order of their first appearance
Unique(s) ==
    IF s = <<>> THEN <<>>
    ELSE LET front == Unique(SubSeq(s, 1, Len(s) - 1))
         IN  IF s[Len(s)] \in Range(front) THEN front ELSE Append(front, s[Len(s)])

RECURSIVE Flatten(_)
Flatten(seqs) == IF seqs = <<>> THEN <<>> ELSE Head(seqs) \o Flatten(Tail(seqs))

\* the seven tables joined on (period, Company), null where a table has no such row
get_WholeRatio(tickers) ==
    LET dfs == get_RatiosofMultipleCompanies(tickers)
        key(row) == <<row.period, row.Company>>
        labels == Unique(Flatten([m \in 1..Len(dfs) |->
                                    [k \in 1..Len(dfs[m].rows) |-> key(dfs[m].rows[k])]]))
        names == [m \in 1..Len(dfs) |-> dfs[m].columns[1]]
        cell(m, label) ==
            IF \E k \in 1..Len(dfs[m].rows) : key(dfs[m].rows[k]) = label
            THEN dfs[m].rows[CHOOSE k \in 1..Len(dfs[m].rows) :
                                key(dfs[m].rows[k]) = label].vals[names[m]]
            ELSE NaN
    IN  [columns |-> <<"Company">> \o names,
         rows |-> [j \in 1..Len(labels) |->
                     [period |-> labels[j][1], Company |-> labels[j][2],
                      vals |-> [c \in Range(names) |->
                                  cell(CHOOSE m \in 1..Len(names) : names[m] = c,
                                       labels[j])]]]]

\* the seven tables of a ticker's balance sheet side by side
get_CompleteBalancesheet(ticker) ==
    LET b == extract_balance_sheet(ticker)
        parts == <<b.current_Assets, b.non_current_Assets, b.total_Assets,
                   b.current_Liabilities, b.non_current_Liabilities, b.total_Liabilities,
                   b.total_ShareHolderEquity>>
        RECURSIVE merged(_, _)
        merged(k, m) == IF m = 0 THEN EmptyDict
                        ELSE merged(k, m - 1) @@ parts[m].rows[k].vals
    IN  [columns |-> Flatten([m \in 1..Len(parts) |-> parts[m].columns]),
         rows |-> [k \in 1..Len(parts[1].rows) |->
                     [period |-> parts[1].rows[k].period, vals |-> merged(k, Len(parts))]]]

get_MultipleBalanceSheet(tickers) ==
    concat([k \in 1..Len(tickers) |-> tag(get_CompleteBalancesheet(tickers[k]), tickers[k])])

get_MultipleFinancial(tickers) ==
    concat([k \in 1..Len(tickers) |-> tag(get_Financial(tickers[k]), tickers[k])])

get_MultipleCashFlow(tickers) ==
    concat([k \in 1..Len(tickers) |-> tag(get_CashFLow(tickers[k]), tickers[k])])

\* a batch call ends: with its tables, or with the exception of the first ticker
\* whose request or column access fails
Finish(call, completes, tables) ==
    /\ pc = call
    /\ IF completes
       THEN /\ pc' = "done"
            /\ output' = [call |-> call, tables |-> tables]
       ELSE /\ pc' = "raised"
            /\ output' = <<>>
    /\ UNCHANGED <<balance_sheet, financials, cashflow, result>>
    /\ UNCHANGED <<provider, listoftickers, t_index, fill_method>>

RatiosofMultipleCompanies ==
    Finish("get_RatiosofMultipleCompanies", Completes(listoftickers),
           get_RatiosofMultipleCompanies(listoftickers))

WholeRatio ==
    Finish("get_WholeRatio", Completes(listoftickers), <<get_WholeRatio(listoftickers)>>)

\* _load_statements: the three statements of the portfolio
LoadStatements ==
    Finish("_load_statements",
           \A k \in 1..Len(listoftickers) : provider[listoftickers[k]].ok,
           <<get_MultipleBalanceSheet(listoftickers), get_MultipleFinancial(listoftickers),
             get_MultipleCashFlow(listoftickers)>>)

BatchCalls == {"get_RatiosofMultipleCompanies", "get_WholeRatio", "_load_statements"}

\* the tickers of a portfolio
Tickers == <<"AAPL", "MSFT", "NVDA">>

\* bound: the tickers of a portfolio
MaxTickers == 2

Sound == RawWith(EmptyDict, EmptyDict, EmptyDict)

\* the provider returns empty statements for a ticker it does not know
EmptyTable == [columns |-> <<>>, rows |-> <<>>]

Unlisted ==
    [ok |-> TRUE, balancesheet |-> EmptyTable, financials |-> EmptyTable,
     cashflow |-> EmptyTable]

\* what the provider may hold for a ticker: sound statements, other sound
\* statements, an income statement without Total Revenue, a failing request, empty
\* statements, an income statement with one more year, a cash flow statement with
\* one year less
ProviderCases ==
    {Sound,
     RawWith("Current Assets" :> Num(30), "EBIT" :> Num(10), EmptyDict),
     RawWith(EmptyDict, "Total Revenue" :> Absent, EmptyDict),
     Failure,
     Unlisted,
     [Sound EXCEPT !.financials.rows = Append(@, [period |-> 0, vals |-> @[Len(@)].vals])],
     [Sound EXCEPT !.cashflow.rows = SubSeq(@, 1, 1)]}

InitBatch ==
    /\ NoCall
    /\ pc \in BatchCalls
    /\ \E n \in 1..MaxTickers : listoftickers = SubSeq(Tickers, 1, n)
    /\ provider \in [Range(listoftickers) -> ProviderCases]
    /\ t_index = 0
    /\ output = <<>>
    /\ fill_method = "pad"

NextBatch == RatiosofMultipleCompanies \/ WholeRatio \/ LoadStatements

SpecBatch == InitBatch /\ [][NextBatch]_vars

\* the ratio tables of a batch result that hold the given ratio column
TablesOf(col) ==
    {m \in 1..Len(output.tables) : col \in Range(output.tables[m].columns)}

\* C17: the ratio batch returns, for every requested ticker, each of the nine named
\* ratios for each of its periods, and every row of every ratio table carries in
\* Company the ticker whose statements produced the row.
C17_AllNineRatios ==
    (pc = "done" /\ output.call \in {"get_RatiosofMultipleCompanies", "get_WholeRatio"}) =>
        \A m \in 1..Len(RatioNames) :
            LET r == RatioNames[m]
            IN  /\ TablesOf(r.column) # {}
                /\ \A j \in TablesOf(r.column), k \in 1..Len(listoftickers) :
                    LET own == ratios_of(listoftickers[k])[r.table].rows
                        rows == output.tables[j].rows
                    IN  \A p \in 1..Len(own) :
                            \E q \in 1..Len(rows) :
                                /\ rows[q].Company = listoftickers[k]
                                /\ rows[q].period = own[p].period
                                /\ rows[q].vals[r.column] = own[p].vals[r.column]

\* a portfolio of which some ticker's inputs are unavailable and some ticker's are not
Partial ==
    /\ \E k \in 1..Len(listoftickers) : ~Available(listoftickers[k])
    /\ \E k \in 1..Len(listoftickers) : Available(listoftickers[k])

\* C18: a batch call on a portfolio in which a ticker's inputs are unavailable still
\* completes, and returns rows for every ticker whose inputs are available.
C18_PartialPortfolio ==
    (pc \notin BatchCalls /\ Partial) =>
        /\ pc = "done"
        /\ \A k \in 1..Len(listoftickers), m \in 1..Len(output.tables) :
            Available(listoftickers[k]) =>
                \E q \in 1..Len(output.tables[m].rows) :
                    output.tables[m].rows[q].Company = listoftickers[k]

(***************************************************************************)
(* The scoring loops of the Dashboard and the Health tab: one row for each *)
(* ticker, then the table in descending order of the score.                *)
(***************************************************************************)
\* a table of the statement helpers as the scorer reads it
ToStatement(frame) == [isNone |-> FALSE, cols |-> Range(frame.columns), rows |-> frame.rows]

\* the seven balance-sheet tables side by side and the two other statements, scored;
\* a failing request raises
_build_health_for_ticker(ticker) ==
    IF ~provider[ticker].ok THEN Raised
    ELSE CHOOSE h \in {score_company_health(bs_single, fs_single, cf_single) :
                          bs_single \in {ToStatement(get_CompleteBalancesheet(ticker))},
                          fs_single \in {ToStatement(get_Financial(ticker))},
                          cf_single \in {ToStatement(get_CashFLow(ticker))}} : TRUE

\* the Dashboard's row of a ticker, h the outcome of _build_health_for_ticker
health_row(t, h) ==
    IF h.outcome = "returned"
    THEN [Company |-> t, Score |-> Num(h.value.score), Rating |-> h.value.rating]
    ELSE [Company |-> t, Score |-> NoneV, Rating |-> "No Data"]

Min(x, y) == IF x <= y THEN x ELSE y

\* the Health tab's row of a ticker: its first three flags, and whether it has more
scorecard_row(t, h) ==
    IF h.outcome = "returned"
    THEN [Company |-> t, Score |-> Num(h.value.score), Rating |-> h.value.rating,
          Top_flags |-> [shown |-> SubSeq(h.value.flags, 1, Min(3, Len(h.value.flags))),
                         more |-> Len(h.value.flags) > 3]]
    ELSE [Company |-> t, Score |-> NoneV, Rating |-> "No Data",
          Top_flags |-> [shown |-> <<"Unable to score (missing Yahoo fields).">>,
                         more |-> FALSE]]

\* the orders of n rows
Orders(n) == {p \in [1..n -> 1..n] : \A a, b \in 1..n : p[a] = p[b] => a = b}

\* a bug: the rows without a score first
sort_values_first(rows) ==
    {[k \in 1..Len(rows) |-> rows[p[k]]] : p \in
        {q \in Orders(Len(rows)) :
            \A a, b \in 1..Len(rows) :
                a < b => /\ ~(isna(rows[q[b]].Score) /\ ~isna(rows[q[a]].Score))
                         /\ ~Lt(rows[q[a]].Score, rows[q[b]].Score)}}

\* sort_values(by="Score", ascending=False, na_position="last"): the results the
\* sort may give, rows of equal score in any order
sort_values(rows) ==
    {[k \in 1..Len(rows) |-> rows[p[k]]] : p \in
        {q \in Orders(Len(rows)) :
            \A a, b \in 1..Len(rows) :
                a < b => /\ ~(isna(rows[q[a]].Score) /\ ~isna(rows[q[b]].Score))
                         /\ ~Lt(rows[q[a]].Score, rows[q[b]].Score)}}

\* the Dashboard's health loop and its table
DashboardLoop ==
    /\ pc = "dashboard"
    /\ pc' = "done"
    /\ \E health_rows \in {[k \in 1..Len(listoftickers) |->
                               health_row(listoftickers[k],
                                          _build_health_for_ticker(listoftickers[k]))]} :
        \E health_df \in sort_values(health_rows) :
            output' = [loop |-> "dashboard", rows |-> health_df]
    /\ UNCHANGED <<balance_sheet, financials, cashflow, result>>
    /\ UNCHANGED <<provider, listoftickers, t_index, fill_method>>

\* the Health tab's scoring loop: the scorecard, the snapshots of the tickers scored
\* and the metric table of each ticker
HealthLoop ==
    /\ pc = "health"
    /\ pc' = "done"
    /\ \E h \in {[t \in Range(listoftickers) |-> _build_health_for_ticker(t)]} :
        \E rows \in {[k \in 1..Len(listoftickers) |->
                        scorecard_row(listoftickers[k], h[listoftickers[k]])]},
           scored \in {SelectSeq(listoftickers, LAMBDA t : h[t].outcome = "returned")} :
            \E scorecard \in sort_values(rows) :
                output' = [loop |-> "health", rows |-> scorecard,
                           snapshots |-> [k \in 1..Len(scored) |->
                                            [snap |-> h[scored[k]].value.snapshot,
                                             Company |-> scored[k]]],
                           metric_tables |-> [t \in Range(listoftickers) |->
                                                IF h[t].outcome = "returned"
                                                THEN h[t].value.metric_scores
                                                ELSE EmptyDict]]
    /\ UNCHANGED <<balance_sheet, financials, cashflow, result>>
    /\ UNCHANGED <<provider, listoftickers, t_index, fill_method>>

\* what the provider may hold for a ticker when the loops run: the cases of the
\* batch, a ticker without a cash flow statement, and weaker companies
LoopCases ==
    ProviderCases \cup
    {[Sound EXCEPT !.cashflow = EmptyTable],
     RawWith("Current Liabilities" :> Num(0), EmptyDict, EmptyDict),
     RawWith("Current Assets" :> Num(10) @@ "Total Equity Gross Minority Interest" :> Num(5),
             "EBIT" :> Num(-10) @@ "Gross Profit" :> Num(5), "Free Cash Flow" :> Num(-30))}

InitHealthLoop ==
    /\ NoCall
    /\ pc \in {"dashboard", "health"}
    /\ \E n \in 1..MaxTickers : listoftickers = SubSeq(Tickers, 1, n)
    /\ provider \in [Range(listoftickers) -> LoopCases]
    /\ t_index = 0
    /\ output = <<>>
    /\ fill_method = "pad"

NextHealthLoop == DashboardLoop \/ HealthLoop

SpecHealthLoop == InitHealthLoop /\ [][NextHealthLoop]_vars

\* whether one of a ticker's three statements has no period
MissingStatements(ticker) ==
    \/ Len(provider[ticker].balancesheet.rows) = 0
    \/ Len(provider[ticker].financials.rows) = 0
    \/ Len(provider[ticker].cashflow.rows) = 0

\* the scores and ratings of a ticker that was scored
WasScored(row) ==
    \/ row.Score \in {Num(s) : s \in 80..100} /\ row.Rating = "Strong"
    \/ row.Score \in {Num(s) : s \in 60..79} /\ row.Rating = "Okay"
    \/ row.Score \in {Num(s) : s \in 40..59} /\ row.Rating = "Weak"
    \/ row.Score \in {Num(s) : s \in 0..39} /\ row.Rating = "Risky"

\* C19: after either loop the table has exactly one row for each ticker; the row of
\* a ticker whose request fails has a null score and rating No Data, the row of a
\* ticker with a missing statement has score 0 and rating No Data, every other
\* ticker is scored; and no row with a null score comes before a row with a score,
\* the scores descending.
C19_Isolation ==
    pc = "done" =>
        LET rows == output.rows
        IN  /\ Len(rows) = Len(listoftickers)
            /\ \A k \in 1..Len(listoftickers) :
                \E q \in 1..Len(rows) :
                    /\ rows[q].Company = listoftickers[k]
                    /\ \A j \in 1..Len(rows) : rows[j].Company = listoftickers[k] => j = q
                    /\ IF ~provider[listoftickers[k]].ok
                       THEN rows[q].Score = NoneV /\ rows[q].Rating = "No Data"
                       ELSE IF MissingStatements(listoftickers[k])
                       THEN rows[q].Score = Num(0) /\ rows[q].Rating = "No Data"
                       ELSE WasScored(rows[q])
            /\ \A a, b \in 1..Len(rows) :
                a < b => /\ isna(rows[a].Score) => isna(rows[b].Score)
                         /\ ~isna(rows[b].Score) => Ge(rows[a].Score, rows[b].Score)

\* the Health tab on a portfolio whose first ticker's request fails and whose second
\* is sound: the second is scored and listed first
C19_Witness ==
    /\ pc = "done"
    /\ output.loop = "health"
    /\ listoftickers = <<"AAPL", "MSFT">>
    /\ ~provider["AAPL"].ok
    /\ provider["MSFT"] = Sound
    /\ output.rows[1].Company = "MSFT"
    /\ output.rows[1].Rating = "Strong"
    /\ output.rows[2].Rating = "No Data"

(***************************************************************************)
(* Year-over-year change of the ratio tables.                              *)
(***************************************************************************)
\* Series.ffill(): each null replaced by the last value before it that is not null
ffill(s) ==
    [k \in 1..Len(s) |->
        [period |-> s[k].period,
         v |-> IF \E j \in 1..k : ~isna(s[j].v)
               THEN s[CHOOSE j \in 1..k :
                        ~isna(s[j].v) /\ \A i \in (j + 1)..k : isna(s[i].v)].v
               ELSE NaN]]

\* Series.pct_change(): data / data.shift(1) - 1, where data is the series with its
\* nulls filled forward under the default fill_method of pandas before 3.0, and the
\* series itself from 3.0 on
pct_change(s) ==
    LET data == IF fill_method = "pad" THEN ffill(s) ELSE s
    IN  [k \in 1..Len(s) |->
            [period |-> s[k].period,
             v |-> IF k = 1 THEN NaN ELSE sub(truediv(data[k].v, data[k - 1].v), Num(1))]]

\* the integer nearest to a / b for b > 0, a tie to the even one
RoundHalfEven(a, b) ==
    LET q == a \div b
        r == a % b
    IN  IF 2 * r > b \/ (2 * r = b /\ q % 2 = 1) THEN q + 1 ELSE q

\* round(x, 2) of a float64
round2(x) == IF IsNum(x) THEN Rat(RoundHalfEven(x.n * 100, x.d), 100) ELSE x

\* df[yoy] = round(df[name].pct_change() * 100, 2)
with_yoy(df, name, yoy) ==
    LET change == pct_change(getitem(df, name))
    IN  [columns |-> Append(df.columns, yoy),
         rows |-> [k \in 1..Len(df.rows) |->
                     [period |-> df.rows[k].period,
                      vals |-> df.rows[k].vals @@
                               (yoy :> round2(mul(change[k].v, Num(100))))]]]

\* pd.concat([a, b], axis=1) of two tables, one of them tagged: the rows joined on
\* the period, null where a table has no such period
concat_columns(a, b) ==
    LET labels == Unique(Index(a.rows) \o Index(b.rows))
        at(df, p) == df.rows[CHOOSE k \in 1..Len(df.rows) : df.rows[k].period = p]
        has(df, p) == \E k \in 1..Len(df.rows) : df.rows[k].period = p
        part(df, p) == [c \in Range(df.columns) \ {"Company"} |->
                           IF has(df, p) THEN at(df, p).vals[c] ELSE NaN]
        tagged == IF "Company" \in Range(a.columns) THEN a ELSE b
    IN  [columns |-> a.columns \o b.columns,
         rows |-> [j \in 1..Len(labels) |->
                     [period |-> labels[j],
                      vals |-> part(a, labels[j]) @@ part(b, labels[j]),
                      Company |-> IF has(tagged, labels[j])
                                  THEN at(tagged, labels[j]).Company ELSE ""]]]

\* the two margins of each ticker with their changes, side by side
get_MultipleProfitabilityRatios(tickers) ==
    concat([k \in 1..Len(tickers) |->
        LET financial == get_Financial(tickers[k])
            gross_profit_Margin ==
                with_yoy(sort_index(get_GrossProfitMargin(financial)),
                         "Gross Profit Margin", "Gross Profit Margin YoY Change")
            operating_profit_Margin ==
                with_yoy(sort_index(get_OperatingProfit_Margin(financial)),
                         "Operating Profit Margin", "Operating Profit Margin YoY Change")
        IN  concat_columns(tag(operating_profit_Margin, tickers[k]), gross_profit_Margin)])

get_MultipleLiquidityRatios(tickers) ==
    concat([k \in 1..Len(tickers) |->
        LET b == extract_balance_sheet(tickers[k])
            cashflow_df == get_CashFLow(tickers[k])
            current_Ratio ==
                with_yoy(sort_index(get_CurrentRatio(b.current_Assets, b.current_Liabilities)),
                         "Current Ratio", "Current Ratio YoY Change")
            operating_cash_flow_Ratio ==
                with_yoy(sort_index(get_OperatingCashFlowRatio(cashflow_df,
                                                               b.current_Liabilities)),
                         "Operating Cash Flow Ratio", "Operating Cash Flow Ratio YoY Change")
        IN  concat_columns(current_Ratio, tag(operating_cash_flow_Ratio, tickers[k]))])

get_MultipleEfficiencyRatios(tickers) ==
    concat([k \in 1..Len(tickers) |->
        LET cashflow_df == get_CashFLow(tickers[k])
            financial == get_Financial(tickers[k])
        IN  tag(with_yoy(sort_index(get_CashFlowtoNetIncomeRatio(cashflow_df, financial)),
                         "Cash Flow to Income Ratio", "Cash Flow to Income Ratio YoY Change"),
                tickers[k])])

\* a call of one of the three functions ends: with its table, or with the exception
\* of a failing request
Return(call, table) ==
    /\ pc = call
    /\ IF \A k \in 1..Len(listoftickers) : provider[listoftickers[k]].ok
       THEN \E df \in {table} :
                /\ pc' = "done"
                /\ output' = [call |-> call, table |-> df]
       ELSE /\ pc' = "raised"
            /\ output' = <<>>
    /\ UNCHANGED <<balance_sheet, financials, cashflow, result>>
    /\ UNCHANGED <<provider, listoftickers, t_index, fill_method>>

MultipleProfitabilityRatios ==
    Return("get_MultipleProfitabilityRatios", get_MultipleProfitabilityRatios(listoftickers))

MultipleLiquidityRatios ==
    Return("get_MultipleLiquidityRatios", get_MultipleLiquidityRatios(listoftickers))

MultipleEfficiencyRatios ==
    Return("get_MultipleEfficiencyRatios", get_MultipleEfficiencyRatios(listoftickers))

\* the ratios that get a year-over-year column: the function, the ratio's column and
\* numerator, and the column of the change
YoYRatios ==
    <<[call |-> "get_MultipleProfitabilityRatios", column |-> "Gross Profit Margin",
       num |-> <<"financials", "Gross Profit">>, yoy |-> "Gross Profit Margin YoY Change"],
      [call |-> "get_MultipleProfitabilityRatios", column |-> "Operating Profit Margin",
       num |-> <<"financials", "EBIT">>, yoy |-> "Operating Profit Margin YoY Change"],
      [call |-> "get_MultipleLiquidityRatios", column |-> "Current Ratio",
       num |-> <<"balancesheet", "Current Assets">>, yoy |-> "Current Ratio YoY Change"],
      [call |-> "get_MultipleLiquidityRatios", column |-> "Operating Cash Flow Ratio",
       num |-> <<"cashflow", "Operating Cash Flow">>,
       yoy |-> "Operating Cash Flow Ratio YoY Change"],
      [call |-> "get_MultipleEfficiencyRatios", column |-> "Cash Flow to Income Ratio",
       num |-> <<"cashflow", "Operating Cash Flow">>,
       yoy |-> "Cash Flow to Income Ratio YoY Change"]>>

\* bound: the reported periods of a series
MaxSeries == 3

\* the values of a line item that varies
YoYCells == {NaN, Num(0), Num(100), Num(150), Num(75)}

\* a raw statement of the given columns, newest period first, where the line item
\* ref takes the values of series (oldest first); Total Revenue is 100, the other
\* denominators are 1, so that a ratio's values are its numerator's
YoYTable(stmt, columns, ref, series) ==
    [columns |-> columns,
     rows |-> [k \in 1..Len(series) |->
                 LET p == Len(series) - k + 1
                 IN  [period |-> p,
                      vals |-> [c \in Range(columns) |->
                                  IF <<stmt, c>> = ref THEN series[p]
                                  ELSE IF c = "Total Revenue" THEN Num(100)
                                  ELSE IF c \in {"Net Income", "Current Liabilities"}
                                  THEN Num(1)
                                  ELSE Num(10 + p)]]]]

YoYStatements(ref, series) ==
    [ok |-> TRUE,
     balancesheet |-> YoYTable("balancesheet", <<"Current Assets", "Current Liabilities">>,
                               ref, series),
     financials |-> YoYTable("financials", FinancialOrder, ref, series),
     cashflow |-> YoYTable("cashflow", <<"Operating Cash Flow">>, ref, series)]

\* one ticker whose numerator of one ratio takes every series of the cells, or whose
\* request fails; alone, or followed by a ticker with the series 100, 150, 75
InitYoY ==
    /\ NoCall
    /\ t_index = 0
    /\ output = <<>>
    /\ fill_method \in {"pad", "none"}
    /\ \E m \in 1..Len(YoYRatios), n \in 1..MaxSeries, both \in BOOLEAN :
        /\ pc = YoYRatios[m].call
        /\ listoftickers = IF both THEN <<"AAPL", "MSFT">> ELSE <<"AAPL">>
        /\ \E first \in {YoYStatements(YoYRatios[m].num, series) : series \in Seqs(YoYCells, n)}
                        \cup {Failure} :
            provider = [t \in Range(listoftickers) |->
                          IF t = "AAPL" THEN first
                          ELSE YoYStatements(YoYRatios[m].num,
                                             <<Num(100), Num(150), Num(75)>>)]

NextYoY == MultipleProfitabilityRatios \/ MultipleLiquidityRatios \/ MultipleEfficiencyRatios

SpecYoY == InitYoY /\ [][NextYoY]_vars

\* the rows of a company in a table, in the table's order
RowsOf(df, ticker) == SelectSeq(df.rows, LAMBDA row : row.Company = ticker)

\* (value - prior) / prior * 100
Change(value, prior) == Mul(Div(Sub(value, prior), prior), Num(100))

\* C20: in the tables of the three functions, each company's rows ascend by period;
\* the change of the first period is null; the change of a later period is
\* (value - prior) / prior * 100 to two decimals for the value of the period before,
\* null when that value is null or 0, and never an infinity.
C20_YoY ==
    pc = "done" =>
        \A m \in 1..Len(YoYRatios), t \in Range(listoftickers) :
            LET r == YoYRatios[m]
                rows == RowsOf(output.table, t)
            IN  output.call = r.call =>
                    \A k \in 1..Len(rows) :
                        LET yoy == rows[k].vals[r.yoy]
                        IN  /\ k > 1 => rows[k - 1].period < rows[k].period
                            /\ k = 1 => yoy = NaN
                            /\ ~IsInf(yoy)
                            /\ k > 1 =>
                                LET value == rows[k].vals[r.column]
                                    prior == rows[k - 1].vals[r.column]
                                IN  /\ (isna(prior) \/ prior = Num(0)) => yoy = NaN
                                    /\ (IsNum(prior) /\ prior # Num(0) /\ IsNum(value)) =>
                                        /\ IsNum(yoy)
                                        /\ Le(Abs(Sub(yoy, Change(value, prior))),
                                              Rat(1, 200))

(***************************************************************************)
(* Properties of the assessment: the snapshot, the flags, the total.       *)
(***************************************************************************)
\* the snapshot's raw inputs: the entry's name and the line item it records
SnapshotInputs ==
    <<[name |-> "Current Assets", ref |-> <<"bs", "Current Assets">>],
      [name |-> "Current Liabilities", ref |-> <<"bs", "Current Liabilities">>],
      [name |-> "Total Assets", ref |-> <<"bs", "Total Assets">>],
      [name |-> "Total Liabilities", ref |-> <<"bs", "Total Liabilities Net Minority Interest">>],
      [name |-> "Total Equity", ref |-> <<"bs", "Total Equity Gross Minority Interest">>],
      [name |-> "Cash & Equivalents", ref |-> <<"bs", "Cash And Cash Equivalents">>],
      [name |-> "Revenue", ref |-> <<"fs", "Total Revenue">>],
      [name |-> "EBIT", ref |-> <<"fs", "EBIT">>],
      [name |-> "Gross Profit", ref |-> <<"fs", "Gross Profit">>],
      [name |-> "Net Income", ref |-> <<"fs", "Net Income">>],
      [name |-> "Operating Cash Flow", ref |-> <<"cf", "Operating Cash Flow">>],
      [name |-> "Free Cash Flow", ref |-> <<"cf", "Free Cash Flow">>],
      [name |-> "Capex", ref |-> <<"cf", "Capital Expenditure">>]>>

\* the snapshot's entry of the m-th ratio metric
SnapshotRatios ==
    <<"Current Ratio", "Debt to Equity (Liab/Equity)", "Debt to Assets (Liab/Assets)",
      "Operating Margin (EBIT/Revenue)", "Gross Margin (Gross Profit/Revenue)",
      "OCF / Net Income">>

\* C24: an assessment computed from three statements with content has a snapshot
\* with exactly the thirteen raw inputs and the six ratios as keys; each raw entry is
\* the latest value of its line item, null for an absent column; each ratio entry is
\* the quotient of its two line items when the ratio is computable, and null
\* otherwise.
C24_Snapshot ==
    Scored =>
        /\ DOMAIN result.snapshot =
              {SnapshotInputs[j].name : j \in 1..Len(SnapshotInputs)}
                  \cup Range(SnapshotRatios)
        /\ \A j \in 1..Len(SnapshotInputs) :
              /\ result.snapshot[SnapshotInputs[j].name] = Item(SnapshotInputs[j].ref)
              /\ IsNum(result.snapshot[SnapshotInputs[j].name])
                    \/ isna(result.snapshot[SnapshotInputs[j].name])
        /\ \A m \in 1..Len(RatioMetrics) :
              IF Computable(m)
              THEN result.snapshot[SnapshotRatios[m]]
                       = Div(Item(RatioMetrics[m].num), Item(RatioMetrics[m].den))
              ELSE isna(result.snapshot[SnapshotRatios[m]])

\* the balance sheet has no Current Liabilities column: both the raw entry and the
\* Current Ratio are in the snapshot, null
C24_Witness ==
    /\ Scored
    /\ "Current Liabilities" \notin balance_sheet.cols
    /\ "Current Liabilities" \in DOMAIN result.snapshot
    /\ result.snapshot["Current Liabilities"] = NoneV
    /\ result.snapshot["Current Ratio"] = NoneV
    /\ result.snapshot["Current Assets"] = Num(30)

\* each ratio metric's inputs, or free cash flow and revenue, vary
InitFlags == InitRatios \/ InitFCF

SpecFlags == InitFlags /\ [][Next]_vars

\* the flags of the bands of the m-th ratio metric that score 4 and 1
BandFlags ==
    <<[four |-> "Current Ratio is below 1.0 (tight short-term liquidity).",
       one |-> "Current Ratio is very low (high short-term liquidity risk)."],
      [four |-> "High leverage (liabilities materially exceed equity).",
       one |-> "Very high leverage (risk increases sharply in downturns)."],
      [four |-> "Liabilities are a large share of assets (solvency weaker).",
       one |-> "Liabilities dominate the asset base (solvency risk)."],
      [four |-> "Thin operating margin (profits can vanish in a slowdown).",
       one |-> "Very low operating margin (business model looks fragile)."],
      [four |-> "Low gross margin (limited pricing power or high input costs).",
       one |-> "Very low gross margin (watch competitive pressure)."],
      [four |-> "Cash conversion is weak (profits not turning into cash).",
       one |-> "Very weak cash conversion (potential accrual risk)."]>>

\* C25 as stated: whenever one of the seven threshold metrics scores less than 10 from
\* a computable value, the band that scores 7 included, a flag of that metric is in
\* flags.
C25_EveryLowerBandFlags ==
    Scored =>
        /\ \A m \in 1..Len(RatioMetrics) :
              (Computable(m) /\ MetricScore(m) < 10) =>
                  (HasFlag(BandFlags[m].four) \/ HasFlag(BandFlags[m].one))
        /\ (IsNum(Item(<<"cf", "Free Cash Flow">>)) /\ FcfScore < 10) =>
              (HasFlag(FcfFlags.slight) \/ HasFlag(FcfFlags.material))

\* C25 amended: a ratio metric that scores 4 or 1 from a computable value has the
\* flag of its band in flags, and one that scores 10 or 7 has no flag of its bands;
\* Free Cash Flow has the flag of its band when it scores 6 or 2 from a number.
C25_LowBandsFlag ==
    Scored =>
        /\ \A m \in 1..Len(RatioMetrics) :
              Computable(m) =>
                  /\ MetricScore(m) = 4 => HasFlag(BandFlags[m].four)
                  /\ MetricScore(m) = 1 => HasFlag(BandFlags[m].one)
                  /\ MetricScore(m) \in {10, 7} =>
                        (~HasFlag(BandFlags[m].four) /\ ~HasFlag(BandFlags[m].one))
        /\ IsNum(Item(<<"cf", "Free Cash Flow">>)) =>
              /\ FcfScore = 6 => HasFlag(FcfFlags.slight)
              /\ FcfScore = 2 => HasFlag(FcfFlags.material)

\* an operating margin of 0.08: Profitability scores 4, with its flag
C25_Witness ==
    /\ Scored
    /\ Item(<<"fs", "EBIT">>) = Num(4)
    /\ Item(<<"fs", "Total Revenue">>) = Num(50)
    /\ MetricScore(4) = 4
    /\ HasFlag(BandFlags[4].four)

\* C30: Leverage scores 10 with no leverage flag only when the total equity is
\* positive and the total liabilities do not exceed it; in particular never for a
\* negative equity with positive liabilities.
C30_LeverageTopScore ==
    LET tot_liab == Item(RatioMetrics[2].num)
        equity == Item(RatioMetrics[2].den)
    IN  (Scored /\ MetricScore(2) = 10
            /\ ~HasFlag(BandFlags[2].four) /\ ~HasFlag(BandFlags[2].one)
            /\ ~HasFlag(RatioMetrics[2].flag)) =>
            /\ IsNum(equity) /\ equity.n > 0
            /\ IsNum(tot_liab) /\ Le(tot_liab, equity)

\* C29: a computed score is 100 exactly when all eight metric scores are 10; a score
\* of 100 comes with the rating Strong and no flag; and the total of the metric
\* scores with any one of them raised, the other seven as they are, is not lower.
C29_PerfectScore ==
    Scored =>
        /\ result.score = 100 <=> \A key \in MetricNames : result.metric_scores[key] = 10
        /\ result.score = 100 => (result.rating = "Strong" /\ result.flags = <<>>)
        /\ \A key \in MetricNames :
              \A raised \in (result.metric_scores[key] + 1)..10 :
                  TotalScore([result.metric_scores EXCEPT ![key] = raised]) >= result.score

\* the sound company: all eight metrics at 10, the score 100
C29_Witness ==
    /\ Scored
    /\ result.score = 100
    /\ \A key \in MetricNames : result.metric_scores[key] = 10
    /\ result.rating = "Strong"

\* the rows of a statement newest first when they were oldest first, and the other
\* way round
Reversed(df) == [df EXCEPT !.rows = Reverse(df.rows)]

\* a statement with every value of the periods before its latest three replaced
Aged(df, v) ==
    [df EXCEPT !.rows =
        [k \in 1..Len(df.rows) |->
            IF df.rows[k].period \in RecentPeriods(df) THEN df.rows[k]
            ELSE [period |-> df.rows[k].period,
                  vals |-> [f \in DOMAIN df.rows[k].vals |-> v]]]]

\* C26: the outcome of a call is the outcome of the call on the statements with
\* their rows reversed, and on the statements whose periods before the latest three
\* hold other values (null, or 7).
C26_LatestPeriodsOnly ==
    pc # "call" =>
        LET here == [outcome |-> pc, value |-> result]
        IN  /\ score_company_health(Reversed(balance_sheet), Reversed(financials),
                                    Reversed(cashflow)) = here
            /\ score_company_health(Aged(balance_sheet, NaN), Aged(financials, NaN),
                                    Aged(cashflow, NaN)) = here
            /\ score_company_health(Aged(balance_sheet, Num(7)), Aged(financials, Num(7)),
                                    Aged(cashflow, Num(7))) = here

\* a balance sheet of four years, oldest first, whose oldest liabilities differ from
\* those of the year after: the trend is taken from the year after
C26_Witness ==
    /\ pc = "returned"
    /\ Len(balance_sheet.rows) = 4
    /\ balance_sheet.rows[1].period = 1
    /\ balance_sheet.rows[1].vals["Total Liabilities Net Minority Interest"] = Num(6)
    /\ balance_sheet.rows[2].vals["Total Liabilities Net Minority Interest"] = Num(2)
    /\ balance_sheet.rows[4].vals["Total Liabilities Net Minority Interest"] = Num(4)
    /\ output.liab_trend = Num(1)

(***************************************************************************)
(* Statements of one ticker with different periods.                        *)
(***************************************************************************)
\* the periods of a ticker's raw statement
RawPeriods(ticker, stmt) == Range(Index(provider[ticker][stmt].rows))

\* a ticker whose three statements do not report the same periods
Mismatched(ticker) ==
    \/ RawPeriods(ticker, "balancesheet") # RawPeriods(ticker, "financials")
    \/ RawPeriods(ticker, "balancesheet") # RawPeriods(ticker, "cashflow")

\* C27: get_RatiosofMultipleCompanies on tickers whose inputs are available, one of
\* them with statements of different periods, completes; each of the seven tables
\* holds for each ticker one row tagged with the ticker for every period of the
\* ratio's numerator or denominator statement, null where one of the two lacks the
\* period.
C27_MismatchedPeriods ==
    [][(/\ RatiosofMultipleCompanies
        /\ \A k \in 1..Len(listoftickers) : Available(listoftickers[k])
        /\ \E k \in 1..Len(listoftickers) : Mismatched(listoftickers[k]))
       => /\ pc' = "done"
          /\ \A m \in 1..Len(SevenRatios), k \in 1..Len(listoftickers) :
                LET r == RatioNames[m]
                    t == listoftickers[k]
                    rows == RowsOf(output'.tables[m], t)
                IN  /\ Range(Index(rows)) = RawPeriods(t, r.num[1]) \cup RawPeriods(t, r.den[1])
                    /\ \A j \in 1..Len(rows) :
                          (rows[j].period \notin
                              RawPeriods(t, r.num[1]) \cap RawPeriods(t, r.den[1]))
                          => rows[j].vals[r.column] = NaN]_vars

(***************************************************************************)
(* The relative difference of the seven ratios: each value against the     *)
(* mean of all companies' values of the same calendar year.  A period of   *)
(* the dated statements is a date, counted in months.                      *)
(***************************************************************************)
MonthsPerYear == 12

\* the date of the given year and month (1 to 12)
Date(y, m) == y * MonthsPerYear + (m - 1)

\* df.index.year
year(period) == period \div MonthsPerYear

RECURSIVE Total(_)
\* the float sum of a sequence of numbers
Total(values) == IF values = <<>> THEN Num(0) ELSE Add(Head(values), Total(Tail(values)))

\* a bug: the first value instead of the mean
first_value(values) == IF values = <<>> THEN NaN ELSE values[1]

\* the mean of a group's values, nulls skipped: null for a group without a value,
\* an infinity when the group holds infinities of one sign, NaN when of both
mean(values) ==
    LET present == SelectSeq(values, LAMBDA v : ~isna(v))
        infinite == SelectSeq(present, IsInf)
    IN  IF present = <<>> THEN NaN
        ELSE IF infinite = <<>> THEN truediv(Total(present), Num(Len(present)))
        ELSE IF \A k \in 1..Len(infinite) : infinite[k] = infinite[1] THEN infinite[1]
        ELSE NaN

\* df['Year'], df['Comparison Ratio'] and df['Relative_Difference'] added to a
\* concatenated ratio table
relative_difference(df, name) ==
    [columns |-> df.columns \o <<"Year", "Comparison Ratio", "Relative_Difference">>,
     rows |-> [k \in 1..Len(df.rows) |->
                 LET Year == year(df.rows[k].period)
                     group == SelectSeq(df.rows, LAMBDA row : year(row.period) = Year)
                     comparison == mean([j \in 1..Len(group) |-> group[j].vals[name]])
                 IN  [period |-> df.rows[k].period,
                      Company |-> df.rows[k].Company,
                      vals |-> df.rows[k].vals @@
                               ("Year" :> Num(Year)) @@
                               ("Comparison Ratio" :> comparison) @@
                               ("Relative_Difference" :>
                                   sub(truediv(df.rows[k].vals[name], comparison), Num(1)))]]]

ratio_list ==
    <<"Current Ratio", "Debt_to_Equity_Ratio", "Equity_Multiplier_Ratio",
      "Debt_To_Assets_Ratio", "Asset Turnover Ratio", "Cash Flow to Income Ratio",
      "Operating Cash Flow Ratio">>

\* the seven tables after the loop
new_df_list(tickers) ==
    CHOOSE list \in
        {[i \in 1..Len(dflist) |-> relative_difference(dflist[i], ratio_list[i])] :
            dflist \in {get_RatiosofMultipleCompanies(tickers)}} : TRUE

\* a repair: the seven tables returned each in its position
each_in_its_position(tickers) == new_df_list(tickers)

\* the tables returned: the sixth of the list in the sixth and the seventh position
get_RelativeDifferenceofRatio(tickers) ==
    CHOOSE returned \in
        {<<list[1], list[2], list[3], list[4], list[5], list[6], list[6]>> :
            list \in {new_df_list(tickers)}} : TRUE

RelativeDifferenceofRatio ==
    \E completes \in {Completes(listoftickers)} :
        \E tables \in {IF completes THEN get_RelativeDifferenceofRatio(listoftickers)
                       ELSE <<>>} :
            Finish("get_RelativeDifferenceofRatio", completes, tables)

\* a ticker's raw statements with the latest period at the given date and each
\* period before it a year earlier
Dated(raw, latest) ==
    LET dated(df) == [df EXCEPT !.rows = [k \in 1..Len(df.rows) |->
                         [df.rows[k] EXCEPT !.period = latest - (k - 1) * MonthsPerYear]]]
    IN  [raw EXCEPT !.balancesheet = dated(@), !.financials = dated(@),
                    !.cashflow = dated(@)]

\* what the provider may hold for a ticker: two fiscal years ending in December
\* 2024 with a latest current ratio of 1, 2 or 3, without a value, or with no
\* current liabilities; fiscal years ending in June 2024; fiscal years ending in
\* December 2023; a failing request
DatedCases ==
    {Dated(RawWith("Current Assets" :> Num(20), EmptyDict, EmptyDict), Date(2024, 12)),
     Dated(RawWith("Current Assets" :> Num(40), EmptyDict, EmptyDict), Date(2024, 12)),
     Dated(RawWith("Current Assets" :> Num(60), EmptyDict, EmptyDict), Date(2024, 12)),
     Dated(RawWith("Current Assets" :> NaN, EmptyDict, EmptyDict), Date(2024, 12)),
     Dated(RawWith("Current Liabilities" :> Num(0), EmptyDict, EmptyDict), Date(2024, 12)),
     Dated(Sound, Date(2024, 6)),
     Dated(Sound, Date(2023, 12)),
     Failure}

InitRelative ==
    /\ NoCall
    /\ pc = "get_RelativeDifferenceofRatio"
    /\ \E n \in 1..Len(Tickers) : listoftickers = SubSeq(Tickers, 1, n)
    /\ provider \in [Range(listoftickers) -> DatedCases]
    /\ t_index = 0
    /\ output = <<>>
    /\ fill_method = "pad"

NextRelative == RelativeDifferenceofRatio

SpecRelative == InitRelative /\ [][NextRelative]_vars

\* the rows of a table whose period falls in the calendar year of the given row
SameYear(df, row) == SelectSeq(df.rows, LAMBDA peer : year(peer.period) = year(row.period))

\* the values a ratio takes in the given rows, nulls left out
Present(rows, name) ==
    SelectSeq([j \in 1..Len(rows) |-> rows[j].vals[name]], LAMBDA v : ~isna(v))

\* C21: in each of the seven returned tables, the Comparison Ratio of a row is the
\* mean of the ratio's values over all rows of the row's calendar year, of every
\* company, and its Relative_Difference is value / Comparison Ratio - 1.
C21_RelativeDifference ==
    pc = "done" =>
        \A m \in 1..Len(output.tables) :
            LET df == output.tables[m]
                name == df.columns[1]
            IN  \A k \in 1..Len(df.rows) :
                    LET row == df.rows[k]
                        values == Present(SameYear(df, row), name)
                        comparison == row.vals["Comparison Ratio"]
                        value == row.vals[name]
                    IN  /\ (values # <<>> /\ \A j \in 1..Len(values) : IsNum(values[j])) =>
                              /\ IsNum(comparison)
                              /\ Mul(comparison, Num(Len(values))) = Total(values)
                        /\ (IsNum(value) /\ IsNum(comparison) /\ comparison # Num(0)) =>
                              row.vals["Relative_Difference"] =
                                  Sub(Div(value, comparison), Num(1))
                        /\ (isna(value) \/ isna(comparison)) =>
                              row.vals["Relative_Difference"] = NaN

\* three companies with the current ratios 1, 2 and 3 in 2024: the Comparison
\* Ratio is 2 and the relative differences are -0.5, 0 and 0.5
C21_Witness ==
    /\ pc = "done"
    /\ Len(listoftickers) = 3
    /\ \A k \in 1..3 :
          \E j \in 1..Len(output.tables[1].rows) :
              LET row == output.tables[1].rows[j]
              IN  /\ row.Company = listoftickers[k]
                  /\ row.period = Date(2024, 12)
                  /\ row.vals["Current Ratio"] = Num(k)
                  /\ row.vals["Comparison Ratio"] = Num(2)
                  /\ row.vals["Relative_Difference"] = Rat(k - 2, 2)

\* C28: the sixth and the seventh returned table are the same table, the relative
\* difference of Cash Flow to Income Ratio, and no returned table holds the
\* relative difference of Operating Cash Flow Ratio.
C28_SixthTwice ==
    pc = "done" =>
        /\ output.tables[7] = output.tables[6]
        /\ output.tables[6].columns[1] = "Cash Flow to Income Ratio"
        /\ \A m \in 1..Len(output.tables) :
              "Operating Cash Flow Ratio" \notin Range(output.tables[m].columns)

\* a completed call whose Cash Flow to Income Ratio has a relative difference other
\* than 0 and other than that of Operating Cash Flow Ratio
C28_Witness ==
    /\ pc = "done"
    /\ \E k \in 1..Len(output.tables[7].rows) :
          LET row == output.tables[7].rows[k]
          IN  /\ IsNum(row.vals["Relative_Difference"])
              /\ row.vals["Relative_Difference"] # Num(0)
              /\ row.vals["Relative_Difference"] #
                    new_df_list(listoftickers)[7].rows[k].vals["Relative_Difference"]

(***************************************************************************)
(* The ranking tables: each company's mean of a metric over the last two   *)
(* years of a table of the three functions, best first.                    *)
(***************************************************************************)
\* df[df.index >= df.index.max() - pd.DateOffset(years=2)] of the sorted table
last_two_years(df) ==
    LET latest == CHOOSE p \in Range(Index(df.rows)) : \A q \in Range(Index(df.rows)) : q <= p
    IN  SelectSeq(sort_index(df).rows, LAMBDA row : row.period >= latest - 2 * MonthsPerYear)

\* groupby('Company')[by].mean().reset_index(): one row for each company of the
\* rows, its value the mean of the company's values; a row without a company is
\* in no group
groupby_mean(window, by) ==
    LET companies == {window[k].Company : k \in 1..Len(window)} \ {""}
        group(c) == SelectSeq(window, LAMBDA row : row.Company = c)
        listed == CHOOSE s \in [1..Cardinality(companies) -> companies] :
                      \A a, b \in 1..Cardinality(companies) : s[a] = s[b] => a = b
    IN  [k \in 1..Cardinality(companies) |->
            [Company |-> listed[k],
             vals |-> by :> mean([j \in 1..Len(group(listed[k])) |->
                                     group(listed[k])[j].vals[by]])]]

\* a < b of two floats, infinities included
lt(a, b) ==
    /\ IsNum(a) \/ IsInf(a)
    /\ IsNum(b) \/ IsInf(b)
    /\ IF IsInf(a) THEN a = NegInf /\ b # NegInf
       ELSE IF IsInf(b) THEN b = PosInf
       ELSE Lt(a, b)

\* a bug: the lowest value first
sort_values_ascending(rows, by) ==
    {[k \in 1..Len(rows) |-> rows[p[k]]] : p \in
        {q \in Orders(Len(rows)) :
            \A a, b \in 1..Len(rows) :
                a < b => /\ ~(isna(rows[q[a]].vals[by]) /\ ~isna(rows[q[b]].vals[by]))
                         /\ ~lt(rows[q[b]].vals[by], rows[q[a]].vals[by])}}

\* sort_values(by=by, ascending=False): the results the sort may give, the nulls
\* last and rows of equal value in any order
sort_values_by(rows, by) ==
    {[k \in 1..Len(rows) |-> rows[p[k]]] : p \in
        {q \in Orders(Len(rows)) :
            \A a, b \in 1..Len(rows) :
                a < b => /\ ~(isna(rows[q[a]].vals[by]) /\ ~isna(rows[q[b]].vals[by]))
                         /\ ~lt(rows[q[a]].vals[by], rows[q[b]].vals[by])}}

\* the ranking tables a window may give for a metric
ranking(window, by) ==
    {[columns |-> <<"Company", by>>, rows |-> rows] :
        rows \in sort_values_by(groupby_mean(window, by), by)}

\* a ranking function on the table of its ratio function: its window and its two
\* ranking tables
Rank(call, ratios, first, second) ==
    /\ pc = "done"
    /\ output.call = ratios
    /\ \E window \in {last_two_years(output.table)} :
        \E a \in ranking(window, first), b \in ranking(window, second) :
            output' = [call |-> call, table |-> output.table,
                       last_two_years |-> window, tables |-> <<a, b>>]
    /\ pc' = "ranked"
    /\ UNCHANGED <<balance_sheet, financials, cashflow, result>>
    /\ UNCHANGED <<provider, listoftickers, t_index, fill_method>>

get_RankingTableProfitability ==
    Rank("get_RankingTableProfitability", "get_MultipleProfitabilityRatios",
         "Gross Profit Margin YoY Change", "Operating Profit Margin YoY Change")

get_RankingTableLiquidity ==
    Rank("get_RankingTableLiquidity", "get_MultipleLiquidityRatios",
         "Current Ratio", "Operating Cash Flow Ratio")

get_RankingTableEfficiency ==
    Rank("get_RankingTableEfficiency", "get_MultipleEfficiencyRatios",
         "Cash Flow to Income Ratio", "Cash Flow to Income Ratio YoY Change")

\* the numerator a ratio function's first ranked metric is made of
RankedItem ==
    [get_MultipleProfitabilityRatios |-> <<"financials", "Gross Profit">>,
     get_MultipleLiquidityRatios |-> <<"balancesheet", "Current Assets">>,
     get_MultipleEfficiencyRatios |-> <<"cashflow", "Operating Cash Flow">>]

\* the line item's values over a company's fiscal years, oldest first
RankedSeries ==
    {<<Num(100), Num(105)>>, <<Num(100), Num(98)>>, <<Num(100), Num(110)>>,
     <<Num(50), Num(100), Num(100), Num(105)>>, <<Num(100)>>}

\* what the provider may hold for a ticker: each series over fiscal years ending
\* in December 2024, the series of four years over fiscal years ending in June
\* 2024, and a failing request
RankedCases(ref) ==
    {Dated(YoYStatements(ref, series), Date(2024, 12)) : series \in RankedSeries}
        \cup {Dated(YoYStatements(ref, <<Num(50), Num(100), Num(100), Num(105)>>),
                    Date(2024, 6)),
              Failure}

InitRanking ==
    /\ NoCall
    /\ t_index = 0
    /\ output = <<>>
    /\ fill_method = "pad"
    /\ pc \in DOMAIN RankedItem
    /\ \E n \in 1..Len(Tickers) : listoftickers = SubSeq(Tickers, 1, n)
    /\ provider \in [Range(listoftickers) -> RankedCases(RankedItem[pc])]

NextRanking ==
    \/ MultipleProfitabilityRatios
    \/ MultipleLiquidityRatios
    \/ MultipleEfficiencyRatios
    \/ get_RankingTableProfitability
    \/ get_RankingTableLiquidity
    \/ get_RankingTableEfficiency

SpecRanking == InitRanking /\ [][NextRanking]_vars

\* a row of a table, told by its period and its company
Key(row) == <<row.period, row.Company>>

Keys(rows) == {Key(rows[k]) : k \in 1..Len(rows)}

\* the latest calendar year of a table
MaxYear(df) ==
    CHOOSE y \in {year(p) : p \in Range(Index(df.rows))} :
        \A p \in Range(Index(df.rows)) : year(p) <= y

\* C22: the rows that enter a ranking are the rows of the table, of every company,
\* whose period's calendar year is at least the table's latest calendar year - 2.
C22_CalendarWindow ==
    pc = "ranked" =>
        Keys(output.last_two_years) =
            {Key(output.table.rows[k]) : k \in
                {j \in 1..Len(output.table.rows) :
                    year(output.table.rows[j].period) >= MaxYear(output.table) - 2}}

\* C23: a ranking table has one row for each company with a row in the window and
\* no other row; a row's value is the mean of the company's values of the metric
\* in the window; no row has a lower value than a row after it.
C23_RankingOrder ==
    pc = "ranked" =>
        \A m \in 1..Len(output.tables) :
            LET rows == output.tables[m].rows
                by == output.tables[m].columns[2]
                window == output.last_two_years
            IN  /\ \A a, b \in 1..Len(rows) : rows[a].Company = rows[b].Company => a = b
                /\ {rows[k].Company : k \in 1..Len(rows)} =
                       {window[k].Company : k \in 1..Len(window)}
                /\ \A k \in 1..Len(rows) :
                      LET values == Present(RowsOf([rows |-> window], rows[k].Company), by)
                      IN  IF values = <<>> THEN rows[k].vals[by] = NaN
                          ELSE Mul(rows[k].vals[by], Num(Len(values))) = Total(values)
                /\ \A k \in 1..(Len(rows) - 1) :
                      /\ ~Lt(rows[k].vals[by], rows[k + 1].vals[by])
                      /\ isna(rows[k].vals[by]) => isna(rows[k + 1].vals[by])

\* the mean changes of the gross profit margin 5, -2 and 10 of AAPL, MSFT and NVDA
\* are ranked NVDA, AAPL, MSFT
C23_Witness ==
    /\ pc = "ranked"
    /\ output.call = "get_RankingTableProfitability"
    /\ output.tables[1].rows =
          <<[Company |-> "NVDA", vals |-> "Gross Profit Margin YoY Change" :> Num(10)],
            [Company |-> "AAPL", vals |-> "Gross Profit Margin YoY Change" :> Num(5)],
            [Company |-> "MSFT", vals |-> "Gross Profit Margin YoY Change" :> Num(-2)]>>

====
